---- MODULE Spec2Model ----
(***************************************************************************)
(* Model of the cache coherence engine of KnowledgeGraphService            *)
(* (src/src/knowledge_graph_service.py) over the keyed node store of       *)
(* Neo4jService (src/src/neo4j_service.py).                                *)
(*                                                                         *)
(* Strings that the code inspects character by character (file paths,      *)
(* commands) are sequences of one-character strings.  Timestamps are       *)
(* records: kind "aware" is a string of the trace generator's format       *)
(* YYYY-MM-DDTHH:MM:SSZ (iso_z), whose string order is its time order and   *)
(* which datetime.fromisoformat parses to an offset-aware datetime; kind   *)
(* "naive" is the value datetime.now().isoformat() that add_tool_result    *)
(* substitutes for a missing timestamp (it parses to an offset-naive       *)
(* datetime); kind "bad" is the unparseable string "not-a-timestamp"; kind *)
(* "none" is a missing timestamp key.  SHA-256 is taken to be injective:   *)
(* a tool_key is the pair of the action type and the normalized action.    *)
(***************************************************************************)
EXTENDS Integers, Sequences, FiniteSets, TLC

VARIABLES
    episodes,      \* tool_result_TR-N nodes: N -> content (the stored JSON)
    summaries,     \* summary_TR-N nodes: N -> content
    resources,     \* resource::<id> nodes: node id -> last_write_ts
    tool_counter,  \* KnowledgeGraphService.tool_counter
    calls,         \* history: one record per add_tool_result call, in call order
    writeLog,      \* history: (resource id, timestamp) of every write episode added
    pf,            \* the last preflight call and what it returned
    thr,           \* step-level runs: each thread's position and locals
    clog,          \* step-level runs: history of the calls that ended, in the order they ended
    hist,          \* step-level runs: the writes stored, who deleted which node, each node's first content
    fp,            \* fingerprinter runs: the action under test, its tool_key, the last rewriting of it
    graph,         \* two-workflow runs: the Node table of the database, node id -> workflow_id and content
    services,      \* two-workflow runs: the tool_counter of the service object of each workflow
    dash,          \* agent-loop runs: the last generate_dashboard call and what it returned
    compressions,  \* summary runs: compression_<ids> nodes: the tool_ids of the key -> content
    edges,         \* summary runs: the SUMMARIZES and COMPRESSES relationships of the database
    sjob           \* summary runs: the generate_summary call under way, or the last one that ended

vars == <<episodes, summaries, resources, tool_counter, calls, writeLog, pf, thr, clog, hist, fp,
          graph, services, dash, compressions, edges, sjob>>

\* the variables of the two-workflow runs and of the dashboard
sidevars == <<graph, services, dash, compressions, edges, sjob>>

\* the variables of the summary and compression runs
sumvars == <<compressions, edges, sjob>>

\* the variables of the concurrent run, and the histories of the sequential one
concvars == <<thr, clog, hist, fp, sidevars>>
seqhist == <<calls, writeLog, pf, fp, sidevars>>

\* ------------------------------------------------------------------ bounds

MaxTime == 2
MaxCalls == 3
MaxSummaries == 1
MaxThreadCalls == 2
MaxFaultCalls == 3
MaxFaults == 1
MaxRestarts == 1
MaxFiles == 3
MaxWorkflowCalls == 3
MaxAgentCalls == 3
MaxCommandCalls == 3
MaxSummaryCalls == 2
MaxCompressLen == 2

\* ----------------------------------------------------------------- strings

Str_a_sp_b == <<"a", " ", "b">>
Str_a_us_b == <<"a", "_", "b">>
Cmd_rm == <<"r", "m", " ", "s", "3", ":", "/", "/", "b">>
Cmd_ls == <<"l", "s", " ", "s", "3", ":", "/", "/">>
Str_g == <<"g">>
Str_q == <<"q", "\"", "\\">>
Str_ok == <<"o", "k">>
Str_no == <<"n", "o">>
Str_file == <<"f", "i", "l", "e">>
Str_main_tf == <<"m", "a", "i", "n", ".", "t", "f">>
Str_x == <<"x">>
Str_y == <<"y">>
Str_port_80 == <<"p", "o", "r", "t", " ", "8", "0">>
Cmd_ls_b == <<"l", "s", " ", "s", "3", ":", "/", "/", "b">>
Cmd_cp_a_b == <<"c", "p", " ", "s", "3", ":", "/", "/", "a", " ", "s", "3", ":", "/", "/", "b">>
Cmd_rm_b_k == <<"r", "m", " ", "s", "3", ":", "/", "/", "b", "/", "k">>
Cmd_get_g == <<"g", "e", "t", " ", "-", "-", "g", "r", "o", "u", "p", "-", "n", "a", "m", "e", " ", "g">>
Cmd_get_g_q == <<"g", "e", "t", " ", "-", "-", "g", "r", "o", "u", "p", "-", "n", "a", "m", "e", "=", "'", "g", "'">>
Cmd_rm_g == <<"r", "m", " ", "-", "-", "g", "r", "o", "u", "p", "-", "n", "a", "m", "e", " ", "g">>
Cmd_rm_g_f == <<"r", "m", " ", "-", "-", "g", "r", "o", "u", "p", "-", "n", "a", "m", "e", " ", "g", " ", "-", "f">>

Whitespace == {" "}
UpperCase == <<"A", "B", "C", "D", "E", "F", "G", "H", "I", "J", "K", "L", "M",
               "N", "O", "P", "Q", "R", "S", "T", "U", "V", "W", "X", "Y", "Z">>
LowerCase == <<"a", "b", "c", "d", "e", "f", "g", "h", "i", "j", "k", "l", "m",
               "n", "o", "p", "q", "r", "s", "t", "u", "v", "w", "x", "y", "z">>

\* str.lower() of one character
UpperSet == {UpperCase[i] : i \in 1..26}

LowerChar(c) ==
    IF c \in UpperSet
    THEN LowerCase[CHOOSE i \in 1..26 : UpperCase[i] = c]
    ELSE c

Lower(s) == [i \in 1..Len(s) |-> LowerChar(s[i])]

\* sub occurs in s at position i
OccursAt(s, sub, i) ==
    /\ i >= 1
    /\ i + Len(sub) - 1 <= Len(s)
    /\ \A k \in 1..Len(sub) : s[i + k - 1] = sub[k]

\* `sub in s`
Contains(s, sub) == \E i \in 1..(Len(s) + 1) : OccursAt(s, sub, i)

\* s.split(sub, 1)[-1]: what follows the first occurrence of sub (s itself if none)
AfterFirst(s, sub) ==
    IF Contains(s, sub)
    THEN LET i == CHOOSE j \in 1..(Len(s) + 1) :
                      /\ OccursAt(s, sub, j)
                      /\ \A k \in 1..(j - 1) : ~OccursAt(s, sub, k)
         IN SubSeq(s, i + Len(sub), Len(s))
    ELSE s

StartsWith(s, sub) == OccursAt(s, sub, 1)

\* s.strip(chars) for a set of characters
RECURSIVE LStrip(_, _)
LStrip(s, chars) ==
    IF s # <<>> /\ Head(s) \in chars THEN LStrip(Tail(s), chars) ELSE s

RECURSIVE RStrip(_, _)
RStrip(s, chars) ==
    IF s # <<>> /\ s[Len(s)] \in chars THEN RStrip(SubSeq(s, 1, Len(s) - 1), chars) ELSE s

Strip(s, chars) == RStrip(LStrip(s, chars), chars)

\* s.split(): the maximal runs of non-whitespace characters, in order
RECURSIVE SplitWs(_)
SplitWs(s) ==
    LET t == LStrip(s, Whitespace)
    IN IF t = <<>> THEN <<>>
       ELSE LET n == IF \E i \in 1..Len(t) : t[i] \in Whitespace
                     THEN (CHOOSE i \in 1..Len(t) :
                              /\ t[i] \in Whitespace
                              /\ \A k \in 1..(i - 1) : t[k] \notin Whitespace) - 1
                     ELSE Len(t)
            IN <<SubSeq(t, 1, n)>> \o SplitWs(SubSeq(t, n + 1, Len(t)))

\* str.replace(old, new) for single characters
ReplaceChar(s, old, new) == [i \in 1..Len(s) |-> IF s[i] = old THEN new ELSE s[i]]

\* the dedup loop of _extract_resource_ids: first occurrences, in order
RECURSIVE Dedup(_, _)
Dedup(ids, seen) ==
    IF ids = <<>> THEN <<>>
    ELSE IF Head(ids) \in seen THEN Dedup(Tail(ids), seen)
         ELSE <<Head(ids)>> \o Dedup(Tail(ids), seen \cup {Head(ids)})

Range(s) == {s[i] : i \in 1..Len(s)}

\* -------------------------------------------------------- string literals

S_s3 == <<"s", "3", ":", "/", "/">>
S_policy_arn == <<"-", "-", "p", "o", "l", "i", "c", "y", "-", "a", "r", "n">>
S_group_name == <<"-", "-", "g", "r", "o", "u", "p", "-", "n", "a", "m", "e">>
S_arn == <<"a", "r", "n", ":">>
S_iam_group == <<"i", "a", "m", ":", "g", "r", "o", "u", "p", ":">>
S_code_query == <<"c", "o", "d", "e", "_", "q", "u", "e", "r", "y", ":">>
S_docs == <<"d", "o", "c", "s", ":">>
S_web == <<"w", "e", "b", ":">>
S_language == <<"l", "a", "n", "g", "u", "a", "g", "e">>
S_provider_version == <<"p", "r", "o", "v", "i", "d", "e", "r", "_", "v", "e", "r", "s", "i", "o", "n">>
S_search_method == <<"s", "e", "a", "r", "c", "h", "_", "m", "e", "t", "h", "o", "d">>
S_query == <<"q", "u", "e", "r", "y">>
S_success == <<"s", "u", "c", "c", "e", "s", "s">>
S_error == <<"e", "r", "r", "o", "r">>

write_markers == {
    <<" ", "c", "r", "e", "a", "t", "e", "-">>,
    <<" ", "p", "u", "t", "-">>,
    <<" ", "a", "t", "t", "a", "c", "h", "-">>,
    <<" ", "u", "p", "d", "a", "t", "e", "-">>,
    <<" ", "d", "e", "l", "e", "t", "e", "-">>,
    <<" ", "r", "e", "m", "o", "v", "e", "-">>,
    <<" ", "s", "e", "t", "-">>,
    <<" ", "c", "p", " ">>,
    <<" ", "m", "v", " ">>,
    <<" ", "r", "m", " ">>}

\* code point order of the characters that occur in file names
CodeOrder == <<" ", "'", "-", ".", "/", "0", "1", "2", "3", "4", "5", "6", "7", "8", "9",
               ":", "=", "_", "a", "b", "c", "d", "e", "f", "g", "h", "i", "j", "k", "l",
               "m", "n", "o", "p", "q", "r", "s", "t", "u", "v", "w", "x", "y", "z">>

CharRank(c) == CHOOSE i \in 1..Len(CodeOrder) : CodeOrder[i] = c

\* s < t for Python strings (lexicographic by code point)
RECURSIVE StrLess(_, _)
StrLess(s, t) ==
    IF t = <<>> THEN FALSE
    ELSE IF s = <<>> THEN TRUE
    ELSE IF Head(s) = Head(t) THEN StrLess(Tail(s), Tail(t))
    ELSE CharRank(Head(s)) < CharRank(Head(t))

\* sorted(list of strings)
RECURSIVE SortedStrings(_)
SortedStrings(l) ==
    IF l = <<>> THEN <<>>
    ELSE LET m == CHOOSE i \in 1..Len(l) :
                      \A j \in 1..Len(l) : ~StrLess(l[j], l[i])
             rest == [k \in 1..(Len(l) - 1) |-> IF k < m THEN l[k] ELSE l[k + 1]]
         IN <<l[m]>> \o SortedStrings(rest)

\* ------------------------------------------------------------ fingerprinter

\* Python's None, for the values of action keys (a value that is no character sequence)
NoneValue == <<"None">>

\* a key that the dict does not have
NoKey == <<"no key">>

\* dict.get(k): the value or None
Get(a, k) == IF k \in DOMAIN a THEN a[k] ELSE NoneValue

\* truthiness of a string-or-None value
Truthy(v) == v # NoneValue /\ v # <<>>

\* _normalize_action: files sorted, cwd None -> "", the other keys as they are
\* (the elements of files and args are strings already, so str(x) changes nothing)
_normalize_action(action) ==
    [k \in DOMAIN action |->
        IF k = "files" THEN SortedStrings(action[k])
        ELSE IF k = "cwd" /\ action[k] = NoneValue THEN <<>>
        ELSE action[k]]

\* _make_tool_key: action_type and the sorted-key JSON of the normalized action
\* (a TLA+ function has no key order; the SHA-256 prefix is injective here)
_make_tool_key(action_type, action) == <<action_type, _normalize_action(action)>>

\* the execute_command branch of _extract_resource_ids raises IndexError when
\* nothing but whitespace follows "s3://"
ExtractRaises(action_type, a) ==
    /\ action_type = "execute_command"
    /\ LET cmd == IF Truthy(Get(a, "command")) THEN a.command ELSE <<>>
       IN Contains(cmd, S_s3) /\ SplitWs(AfterFirst(cmd, S_s3)) = <<>>

ExtractCommandIds(cmd) ==
    LET s3ids == IF Contains(cmd, S_s3)
                 THEN LET bucket == Head(SplitWs(AfterFirst(cmd, S_s3)))
                      IN IF bucket # <<>> THEN <<S_s3 \o bucket>> ELSE <<>>
                 ELSE <<>>
        arnids == IF Contains(cmd, S_policy_arn)
                  THEN SelectSeq(SplitWs(cmd), LAMBDA tok : StartsWith(tok, S_arn))
                  ELSE <<>>
        grpids == IF Contains(cmd, S_group_name)
                  THEN LET tail0 == Strip(AfterFirst(cmd, S_group_name), Whitespace)
                           tail1 == IF StartsWith(tail0, <<"=">>)
                                    THEN Strip(Tail(tail0), Whitespace) ELSE tail0
                           tail2 == Strip(tail1, {"'", "\""})
                       IN IF tail2 # <<>> THEN <<S_iam_group \o tail2>> ELSE <<>>
                  ELSE <<>>
    IN s3ids \o arnids \o grpids

DocsParts(a) ==
    LET part(k, name) == IF Truthy(Get(a, k)) THEN <<name \o <<"=">> \o a[k]>> ELSE <<>>
        parts == part("language", S_language) \o part("provider_version", S_provider_version)
                 \o part("search_method", S_search_method) \o part("query", S_query)
        join[i \in 0..Len(parts)] ==
            IF i = 0 THEN <<>>
            ELSE IF i = 1 THEN parts[1]
            ELSE join[i - 1] \o <<"|">> \o parts[i]
    IN IF parts = <<>> THEN <<>> ELSE <<S_docs \o join[Len(parts)]>>

\* _extract_resource_ids: the resource anchors of an action, deduplicated in order
_extract_resource_ids(action_type, a) ==
    LET fileids == IF action_type \in {"create_file", "delete_file", "read_file_contents", "run_file"}
                      /\ Truthy(Get(a, "file_path"))
                   THEN <<a.file_path>> ELSE <<>>
        modids == IF action_type = "modify_code" /\ "files" \in DOMAIN a
                  THEN SelectSeq(a.files, LAMBDA p : p # <<>>) ELSE <<>>
        cmdids == IF action_type = "execute_command" /\ Truthy(Get(a, "command"))
                  THEN ExtractCommandIds(a.command) ELSE <<>>
        qids == IF action_type = "query_codebase" /\ Truthy(Get(a, "query"))
                THEN <<S_code_query \o a.query>> ELSE <<>>
        dids == IF action_type = "search_documentation" THEN DocsParts(a) ELSE <<>>
        wids == IF action_type = "search_internet" /\ Truthy(Get(a, "query"))
                THEN <<S_web \o a.query>> ELSE <<>>
    IN Dedup(fileids \o modids \o cmdids \o qids \o dids \o wids, {})

\* _classify_op: "write" if the action is likely to mutate, else "read"
_classify_op(action_type, action) ==
    IF action_type \in {"create_file", "modify_code", "delete_file"} THEN "write"
    ELSE IF action_type = "execute_command"
            /\ \E m \in write_markers :
                   Contains(<<" ">> \o Lower(IF Truthy(Get(action, "command")) THEN action.command ELSE <<>>)
                            \o <<" ">>, m)
         THEN "write"
    ELSE "read"

\* _resource_node_id: the key of the resource node ("resource::" is left implicit)
_resource_node_id(resource_id) == ReplaceChar(resource_id, " ", "_")

\* --------------------------------------------------------------- timestamps

Aware(t) == [kind |-> "aware", t |-> t]
NowTs == [kind |-> "naive", t |-> 0]
BadTs == [kind |-> "bad", t |-> 0]
NoTs == [kind |-> "none", t |-> 0]

\* datetime.fromisoformat(ts.replace("Z", "+00:00")) succeeds
Parseable(ts) == ts.kind \in {"aware", "naive"}

\* comparing an offset-naive with an offset-aware datetime raises TypeError
CompareRaises(a, b) == a.kind # b.kind

\* a < b for two parsed datetimes of the same kind
TimeLess(a, b) == a.t < b.t

\* position of the timestamp string in Python's string order:
\* "" < "2024-..Z" strings in time order < a datetime.now().isoformat() string
\* (the clock reads later than every timestamp of the traces) < "not-a-timestamp"
StrRank(ts) ==
    CASE ts.kind = "none" -> 0
      [] ts.kind = "aware" -> ts.t
      [] ts.kind = "naive" -> MaxTime + 1 + ts.t
      [] ts.kind = "bad" -> 2 * MaxTime + 2

\* ------------------------------------------------------------------- inputs

Requests ==
    {[action_type |-> "read_file_contents", action |-> [file_path |-> Str_a_sp_b]],
     [action_type |-> "create_file", action |-> [file_path |-> Str_a_sp_b]],
     [action_type |-> "create_file", action |-> [file_path |-> Str_a_us_b]],
     [action_type |-> "run_file", action |-> [file_path |-> Str_a_sp_b]],
     [action_type |-> "execute_command", action |-> [command |-> Cmd_rm]]}

\* the requests preflight is asked: those of the entries, and a command whose
\* "s3://" is followed by nothing, on which _extract_resource_ids raises
PreflightRequests ==
    Requests \cup {[action_type |-> "execute_command", action |-> [command |-> Cmd_ls]]}

\* the requests of the agent-loop runs: a read, a write of the same file, a
\* modify_code of two files, a command that is a write, and a read of a file
\* whose name holds a quote and a backslash
RequestsA ==
    {[action_type |-> "read_file_contents", action |-> [file_path |-> Str_a_sp_b]],
     [action_type |-> "read_file_contents", action |-> [file_path |-> Str_q]],
     [action_type |-> "create_file", action |-> [file_path |-> Str_a_sp_b]],
     [action_type |-> "modify_code", action |-> [files |-> <<Str_g, Str_a_sp_b>>]],
     [action_type |-> "execute_command", action |-> [command |-> Cmd_rm]]}

\* the commands of the command runs: reads and writes that name the bucket b or
\* the group g
CommandsE == {Cmd_ls_b, Cmd_cp_a_b, Cmd_rm_b_k, Cmd_rm, Cmd_get_g, Cmd_get_g_q, Cmd_rm_g, Cmd_rm_g_f}

RequestsE == {[action_type |-> "execute_command", action |-> [command |-> c]] : c \in CommandsE}

\* every request of the runs
KnownRequests == PreflightRequests \cup RequestsA \cup RequestsE

EntryTimestamps == {Aware(t) : t \in 1..MaxTime} \cup {BadTs, NoTs}

\* the requests whose tool call is also enumerated as failed (result.status = error)
ErrorRequests == {r \in Requests : r.action_type = "read_file_contents"}

\* a knowledge_entry: action_type, action, result.status and the timestamp key
Entries ==
    [req : Requests, status : {S_success}, ts : EntryTimestamps]
    \cup [req : ErrorRequests, status : {S_error}, ts : EntryTimestamps]

\* the cache metadata add_tool_result derives from an entry's action
CacheOf ==
    [r \in {x \in KnownRequests : ~ExtractRaises(x.action_type, _normalize_action(x.action))} |->
        LET action_norm == _normalize_action(r.action)
        IN [tool_key |-> _make_tool_key(r.action_type, action_norm),
            resource_ids |-> _extract_resource_ids(r.action_type, action_norm),
            op_type |-> _classify_op(r.action_type, action_norm)]]

\* the requests on which _extract_resource_ids raises
RaisesOf ==
    [r \in KnownRequests |-> ExtractRaises(r.action_type, _normalize_action(r.action))]

\* what preflight derives from the live request: its tool_key and its resource ids
LiveOf ==
    [r \in KnownRequests |->
        [tool_key |-> _make_tool_key(r.action_type, r.action),
         resource_ids |-> IF ExtractRaises(r.action_type, _normalize_action(r.action))
                          THEN <<>>
                          ELSE _extract_resource_ids(r.action_type, _normalize_action(r.action))]]

\* result.get(key) of an entry: a string, NoneValue for null, NoKey when the
\* result of the entry has no such key
ResultKey(entry, key) == IF key \in DOMAIN entry THEN entry[key] ELSE NoKey

\* the JSON that add_tool_result stores: the entry itself (its own action and
\* timestamp keys, the status, output and error of its result) plus the cache
\* metadata
Content(entry) ==
    [action_type |-> entry.req.action_type,
     action |-> entry.req.action,
     status |-> entry.status,
     output |-> ResultKey(entry, "output"),
     error |-> ResultKey(entry, "error"),
     timestamp |-> entry.ts,
     cache |-> CacheOf[entry.req]]

\* ToolResult.timestamp: the entry's timestamp, datetime.now().isoformat() if the key is missing
ToolResultTimestamp(entry) == IF entry.ts = NoTs THEN NowTs ELSE entry.ts

\* ---------------------------------------------------------------- the store

\* Neo4jService.update_node on a map of nodes
PutNode(nodes, key, content) ==
    [k \in DOMAIN nodes \cup {key} |-> IF k = key THEN content ELSE nodes[k]]

\* the id of a node: its kind and the tool number, resource id or tool_id list
NodeId(kind, key) == [kind |-> kind, key |-> key]

\* RelationshipType.SUMMARIZES and COMPRESSES as update_edge writes them
S_SUMMARIZES == "SUMMARIZES"
S_COMPRESSES == "COMPRESSES"

\* the ids of the episode, summary and compression nodes of the database
NodeIds(eps, sums, comps) ==
    {NodeId("tool_result", n) : n \in DOMAIN eps}
    \cup {NodeId("summary", n) : n \in DOMAIN sums}
    \cup {NodeId("compression", ids) : ids \in DOMAIN comps}

\* Neo4jService.update_edge: MATCH of both nodes, then MERGE of the relationship
update_edge(es, nodes, source_metadata, relation_type, target_metadata) ==
    IF source_metadata \in nodes /\ target_metadata \in nodes
    THEN es \cup {[src |-> source_metadata, rel |-> relation_type, dst |-> target_metadata]}
    ELSE es

\* Neo4jService.delete_edge: every relationship between the two nodes, in either
\* direction
delete_edge(es, source_metadata, target_metadata) ==
    {e \in es : {e.src, e.dst} # {source_metadata, target_metadata}}

\* DETACH DELETE: the relationships of a deleted node go with it
Detach(es, nodes) == {e \in es : e.src \in nodes /\ e.dst \in nodes}

\* Neo4jService.delete_node on the map of the nodes of one kind: with force the
\* node is deleted (DETACH DELETE n); without force it is deleted only when no
\* relationship of es starts or ends at it (WHERE NOT (n)-[]-())
delete_node(nodes, es, metadata, force) ==
    IF force \/ ~\E e \in es : metadata \in {e.src, e.dst}
    THEN [k \in DOMAIN nodes \ {metadata.key} |-> nodes[k]]
    ELSE nodes

\* the orders in which get_all_nodes may return the nodes of S
Orders(S) ==
    {o \in [1..Cardinality(S) -> S] : \A i, j \in 1..Cardinality(S) : i # j => o[i] # o[j]}

READ_TYPES == {"read_file_contents", "query_codebase", "search_documentation",
               "search_internet", "retrieve_integration_methods", "execute_command"}

\* _upsert_resource_last_write: the resource node is overwritten with ts_iso
_upsert_resource_last_write(st, resource_id, ts_iso) ==
    [st EXCEPT !.res = PutNode(st.res, _resource_node_id(resource_id), ts_iso)]

\* _get_resource_last_write: the stored last_write_ts, NoTs for a missing node
_get_resource_last_write(res, resource_id) ==
    IF _resource_node_id(resource_id) \in DOMAIN res
    THEN res[_resource_node_id(resource_id)] ELSE NoTs

\* the two delete_node calls for one stale episode, both with force=True
Tombstone(st, n) ==
    [st EXCEPT !.sums = delete_node(st.sums, edges, NodeId("summary", n), TRUE),
               !.eps = delete_node(st.eps, edges, NodeId("tool_result", n), TRUE)]

\* the decision of the loop body of _delete_stale_reads_for_resource for one node
\* of the snapshot: "skip", "delete" or "raise" (the TypeError of t_hit < t_write)
StaleVerdict(content, resource_id, t_write) ==
    IF \/ content.action_type \notin READ_TYPES
       \/ Lower(content.status) # S_success
       \/ resource_id \notin Range(content.cache.resource_ids)
    THEN "skip"
    ELSE IF ~Parseable(content.timestamp) THEN "delete"
    ELSE IF CompareRaises(content.timestamp, t_write) THEN "raise"
    ELSE IF TimeLess(content.timestamp, t_write) THEN "delete"
    ELSE "skip"

\* the loop of _delete_stale_reads_for_resource over the snapshot, in the order
\* the backend returned it, from position i: the episodes it deletes, in order,
\* and whether the TypeError ended it
RECURSIVE StalePlan(_, _, _, _, _)
StalePlan(order, i, snapshot, resource_id, t_write) ==
    IF i > Len(order) THEN [todo |-> <<>>, raised |-> FALSE]
    ELSE LET v == StaleVerdict(snapshot[order[i]], resource_id, t_write)
         IN IF v = "raise" THEN [todo |-> <<>>, raised |-> TRUE]
            ELSE LET rest == StalePlan(order, i + 1, snapshot, resource_id, t_write)
                 IN IF v = "delete"
                    THEN [todo |-> <<order[i]>> \o rest.todo, raised |-> rest.raised]
                    ELSE rest

\* the plan of one call: nothing is purged for an unparseable write timestamp
PurgePlan(order, snapshot, resource_id, write_ts_iso) ==
    IF ~Parseable(write_ts_iso) THEN [todo |-> <<>>, raised |-> FALSE]
    ELSE StalePlan(order, 1, snapshot, resource_id, write_ts_iso)

RECURSIVE TombstoneAll(_, _)
TombstoneAll(st, todo) ==
    IF todo = <<>> THEN st ELSE TombstoneAll(Tombstone(st, Head(todo)), Tail(todo))

\* _delete_stale_reads_for_resource run to its end on the store st
_delete_stale_reads_for_resource(order, st, resource_id, write_ts_iso) ==
    LET plan == PurgePlan(order, st.eps, resource_id, write_ts_iso)
    IN [st |-> TombstoneAll(st, plan.todo), raised |-> plan.raised]

\* the housekeeping loop of add_tool_result over the write's resource ids: every
\* store it can leave, with raised = TRUE when the TypeError ended it
RECURSIVE Housekeeping(_, _, _)
Housekeeping(st, rids, ts) ==
    IF rids = <<>> THEN {[st |-> st, raised |-> FALSE]}
    ELSE LET st1 == _upsert_resource_last_write(st, Head(rids), ts)
         IN UNION {LET r == _delete_stale_reads_for_resource(order, st1, Head(rids), ts)
                   IN IF r.raised THEN {r} ELSE Housekeeping(r.st, Tail(rids), ts)
                   : order \in Orders(DOMAIN st1.eps)}

\* --------------------------------------------------------------- preflight

\* a mutant of the filter of preflight: the status of the prior result is not tested
MatchesAnyStatus(c, action_type, tool_key) ==
    /\ c.action_type = action_type
    /\ c.cache.tool_key = tool_key

\* the filter of preflight: same action_type, status success, same tool_key
Matches(c, action_type, tool_key) ==
    /\ c.action_type = action_type
    /\ Lower(c.status) = S_success
    /\ c.cache.tool_key = tool_key

\* the scan of preflight over the nodes in backend order: the number of the
\* episode kept as latest, 0 for None
RECURSIVE PreflightScan(_, _, _, _, _, _)
PreflightScan(order, i, snapshot, action_type, tool_key, latest) ==
    IF i > Len(order) THEN latest
    ELSE LET c == snapshot[order[i]]
         IN IF ~Matches(c, action_type, tool_key)
            THEN PreflightScan(order, i + 1, snapshot, action_type, tool_key, latest)
            ELSE IF \/ latest = 0
                    \/ /\ c.timestamp.kind # "none"
                       /\ StrRank(c.timestamp) > StrRank(snapshot[latest].timestamp)
                 THEN PreflightScan(order, i + 1, snapshot, action_type, tool_key, order[i])
                 ELSE PreflightScan(order, i + 1, snapshot, action_type, tool_key, latest)

\* the test of one resource in _is_valid_cached_result
ResourceAllows(last_write_ts, t_hit) ==
    \/ last_write_ts.kind = "none"
    \/ /\ Parseable(last_write_ts)
       /\ ~CompareRaises(last_write_ts, t_hit)
       /\ ~TimeLess(t_hit, last_write_ts)

\* _is_valid_cached_result: no newer write on any resource of the live request
_is_valid_cached_result(hit_ts, req, res) ==
    /\ Parseable(hit_ts)
    /\ \A rid \in Range(LiveOf[req].resource_ids) :
           ResourceAllows(_get_resource_last_write(res, rid), hit_ts)

\* the end of preflight, after the scan chose latest: the tool number of the hit,
\* 0 for None
PreflightVerdict(latest, eps, res, req) ==
    IF latest = 0 THEN 0
    ELSE IF ~_is_valid_cached_result(eps[latest].timestamp, req, res) THEN 0
    ELSE latest

\* preflight: the tool number of the hit, 0 for None
preflight(order, eps, res, req) ==
    PreflightVerdict(PreflightScan(order, 1, eps, req.action_type, LiveOf[req].tool_key, 0),
                     eps, res, req)

\* what preflight can return for a request in the current store, over the backend orders
PreflightResults(req) == {preflight(o, episodes, resources, req) : o \in Orders(DOMAIN episodes)}

\* a mutant of _is_valid_cached_result: the try blocks are gone, so a timestamp
\* that does not parse or does not compare raises out of it
ValidityRaisesUncaught(hit_ts, req, res) ==
    \/ ~Parseable(hit_ts)
    \/ RaisesOf[req]
    \/ \E rid \in Range(LiveOf[req].resource_ids) :
           LET last_write_ts == _get_resource_last_write(res, rid)
           IN /\ last_write_ts.kind # "none"
              /\ ~Parseable(last_write_ts) \/ CompareRaises(last_write_ts, hit_ts)

\* the exceptions that leave _is_valid_cached_result: both fromisoformat calls and
\* the comparison are inside try blocks that return False; _extract_resource_ids
\* is called outside them, after the candidate's timestamp has parsed
ValidityRaises(hit_ts, req, res) == Parseable(hit_ts) /\ RaisesOf[req]

\* preflight raises: nothing in preflight itself catches what the validity check lets out
PreflightRaises(latest, eps, res, req) ==
    latest # 0 /\ ValidityRaises(eps[latest].timestamp, req, res)

\* one backend call: the method, the kind of node, and the node's key
BackendCall(m, kind, rkey, n) == [m |-> m, kind |-> kind, rkey |-> rkey, n |-> n]

\* the resource ids _is_valid_cached_result asks the backend about: all of them up
\* to the first one that rejects the candidate
RECURSIVE ResourcesAsked(_, _, _)
ResourcesAsked(rids, hit_ts, res) ==
    IF rids = <<>> THEN <<>>
    ELSE IF ~ResourceAllows(_get_resource_last_write(res, Head(rids)), hit_ts)
    THEN <<Head(rids)>>
    ELSE <<Head(rids)>> \o ResourcesAsked(Tail(rids), hit_ts, res)

DigitChars == <<"0", "1", "2", "3", "4", "5", "6", "7", "8", "9">>

\* str(n) of a natural number
RECURSIVE str_int(_)
str_int(n) ==
    IF n < 10 THEN <<DigitChars[n + 1]>> ELSE str_int(n \div 10) \o <<DigitChars[(n % 10) + 1]>>

\* f"TR-{n}"
ToolIdText(n) == <<"TR-">> \o str_int(n)

\* ", ".join(parts)
RECURSIVE JoinComma(_)
JoinComma(parts) ==
    IF parts = <<>> THEN <<>>
    ELSE IF Len(parts) = 1 THEN Head(parts)
    ELSE Head(parts) \o <<", ">> \o JoinComma(Tail(parts))

\* a salient_data value is None, or a pair of its type and its content: the
\* (key, value) pairs of a dict in their order, the text of a str, the items of a list
SalientCut == 50

\* f"{key}: {value}" of one item of a salient dict; a string value longer than
\* 50 characters is cut to value[:50] + "..."
SalientPart(item) ==
    item[1] \o <<": ">>
    \o (IF Len(item[2]) > SalientCut THEN SubSeq(item[2], 1, SalientCut) \o <<"...">>
        ELSE item[2])

\* retrieve_tool_result_with_salient_data(TR-n): None without a summary node;
\* the summary text, followed by " (<salient data>)" for a non-empty dict, a
\* string that is not blank, or a non-empty list
retrieve_tool_result_with_salient_data(sums, n) ==
    IF n \notin DOMAIN sums THEN NoneValue
    ELSE LET summary_text == sums[n].summary
             salient_data == sums[n].salient_data
         IN IF salient_data = NoneValue \/ salient_data[2] = <<>> THEN summary_text
            ELSE IF salient_data[1] = "dict"
            THEN summary_text \o <<" (">>
                 \o JoinComma([i \in 1..Len(salient_data[2]) |-> SalientPart(salient_data[2][i])])
                 \o <<")">>
            ELSE IF salient_data[1] = "str"
            THEN IF Strip(salient_data[2], Whitespace) # <<>>
                 THEN summary_text \o <<" (">> \o salient_data[2] \o <<")">>
                 ELSE summary_text
            ELSE summary_text \o <<" (">> \o JoinComma(salient_data[2]) \o <<")">>

\* retrieve_tool_result(TR-n, summary=True)
retrieve_tool_result(sums, n) ==
    IF n \in DOMAIN sums THEN sums[n].summary
    ELSE <<"Summary not available for ">> \o ToolIdText(n)

\* the backend calls of the validity check and of the rendering of a hit
PreflightReads(latest, hit, eps, sums, res, req) ==
    LET asked == IF latest = 0 \/ ~Parseable(eps[latest].timestamp) THEN <<>>
                 ELSE ResourcesAsked(LiveOf[req].resource_ids, eps[latest].timestamp, res)
        rendering ==
            IF hit = 0 THEN <<>>
            ELSE <<BackendCall("get_node_by_metadata", "summary", <<>>, hit)>>
                 \o (IF Truthy(retrieve_tool_result_with_salient_data(sums, hit)) THEN <<>>
                     ELSE <<BackendCall("get_node_by_metadata", "summary", <<>>, hit)>>)
    IN [i \in 1..Len(asked) |->
            BackendCall("get_node_by_metadata", "resource", _resource_node_id(asked[i]), 0)]
       \o rendering

\* the backend calls preflight makes when its scan chose latest: get_all_nodes, the resource nodes
\* of the validity check, and on a hit the summary node (once for
\* retrieve_tool_result_with_salient_data, again for retrieve_tool_result when
\* that gave nothing); when _extract_resource_ids raises in the validity check,
\* the call ends there, before any node is asked for
PreflightCalls(latest, eps, sums, res, req) ==
    LET hit == PreflightVerdict(latest, eps, res, req)
    IN <<BackendCall("get_all_nodes", "all", <<>>, 0)>>
       \o (IF PreflightRaises(latest, eps, res, req) THEN <<>>
           ELSE PreflightReads(latest, hit, eps, sums, res, req))

\* the store after one backend call: the read transactions leave it as it is
BackendApply(st, c) ==
    IF c.m \in {"get_all_nodes", "get_node_by_metadata"} THEN st
    ELSE IF c.m = "delete_node"
    THEN CASE c.kind = "episode" ->
                  [st EXCEPT !.eps = delete_node(@, edges, NodeId("tool_result", c.n), TRUE)]
           [] c.kind = "summary" ->
                  [st EXCEPT !.sums = delete_node(@, edges, NodeId("summary", c.n), TRUE)]
           [] c.kind = "resource" ->
                  [st EXCEPT !.res = delete_node(@, edges, NodeId("resource", c.rkey), TRUE)]
    ELSE st

RECURSIVE BackendRun(_, _)
BackendRun(st, cs) ==
    IF cs = <<>> THEN st ELSE BackendRun(BackendApply(st, Head(cs)), Tail(cs))

\* the candidates the scan of preflight can end on in the current store, over the
\* backend orders (0 for none)
PreflightLatest(req) ==
    {PreflightScan(o, 1, episodes, req.action_type, LiveOf[req].tool_key, 0) :
        o \in Orders(DOMAIN episodes)}

\* ------------------------------------------------------- sequential service

Threads == {"t1", "t2"}

NoEntry == [req |-> [action_type |-> "none", action |-> <<>>], status |-> <<>>, ts |-> NoTs]

\* a thread between two calls; k counts the calls it has begun
IdleThread ==
    [pc |-> "idle", k |-> 0, entry |-> NoEntry, tmp |-> 0, tid |-> 0, rix |-> 0,
     todo |-> <<>>, raised |-> FALSE, result |-> 0, b |-> 0, seen |-> {}, fault |-> ""]

\* fp while no action is under test
NoFp == [op |-> "none"]

\* the workflow identifiers of the two service objects that share the database
Workflows == {"wf_a", "wf_b"}

\* the tool_counter of each service object after construction on an empty database
NoServices == [w \in Workflows |-> [tool_counter |-> 0]]

\* dash before any generate_dashboard call
NoDash == [called |-> FALSE]

\* sjob before any call of the second caller; k counts the calls begun
NoJob ==
    [pc |-> "idle", k |-> 0, op |-> "none", tool_id |-> 0, tool_ids |-> <<>>, i |-> 0,
     summaries |-> <<>>, found |-> FALSE, ended |-> FALSE, returned |-> NoneValue,
     allocated |-> 0, tombstoned |-> FALSE]

\* pf after a call that is not preflight
NoPf == [called |-> FALSE, op |-> "add_tool_result"]

\* the salient_data of the JSON answers: null, {"file": "main.tf"}, ["x", "y"]
\* and "port 80"
SalientValues ==
    {NoneValue, <<"dict", << <<Str_file, Str_main_tf>> >> >>, <<"list", <<Str_x, Str_y>> >>,
     <<"str", Str_port_80>>}

\* what the provider can answer to LLMService.generate: a JSON object holding a
\* summary, braces around text that is not JSON, a text with no braces in it, or
\* an exception of the client
LlmResponses ==
    {[kind |-> "json", summary |-> "S", salient_data |-> sd] : sd \in SalientValues}
    \cup {[kind |-> "badjson"], [kind |-> "text"], [kind |-> "error"]}

\* the answers that are a JSON object, and those of them whose salient_data is null
JsonAnswers == {x \in LlmResponses : x.kind = "json"}
PlainAnswers == {x \in JsonAnswers : x.salient_data = NoneValue}

\* LLMService.generate in json_mode: the extracted JSON text, or the exception
\* "LLM generation failed: <reason>"
LlmGenerate(r) ==
    CASE r.kind \in {"json", "badjson"} -> [raised |-> FALSE, json |-> r]
      [] r.kind = "text" ->
            [raised |-> TRUE,
             message |-> <<"LLM generation failed: ", "No JSON object found in LLM response">>]
      [] r.kind = "error" ->
            [raised |-> TRUE, message |-> <<"LLM generation failed: ", "provider error">>]

S_failed == "Summary generation failed: "

\* a mutant of LLMService.generate_summary: a failure yields an empty summary
LlmGenerateSummaryNoFallback(r) ==
    LET g == LlmGenerate(r)
    IN IF g.raised \/ g.json.kind = "badjson"
       THEN [summary |-> <<>>, salient_data |-> NoneValue]
       ELSE [summary |-> <<g.json.summary>>, salient_data |-> g.json.salient_data]

\* LLMService.generate_summary: the parsed object, or the fallback dict when
\* generate or json.loads raised
LlmGenerateSummary(r) ==
    LET g == LlmGenerate(r)
    IN IF g.raised
       THEN [summary |-> <<S_failed>> \o g.message, salient_data |-> NoneValue]
       ELSE IF g.json.kind = "badjson"
       THEN [summary |-> <<S_failed, "Expecting property name enclosed in double quotes",
                           ": line 1 column 2 (char 1)">>,
             salient_data |-> NoneValue]
       ELSE [summary |-> <<g.json.summary>>, salient_data |-> g.json.salient_data]

\* _generate_tool_summary: result.get("summary", ""), result.get("salient_data")
_generate_tool_summary(r) ==
    LET result == LlmGenerateSummary(r)
    IN [summary |-> result.summary, salient_data |-> result.salient_data]

\* a mutant of _store_tool_summary: an existing summary node is kept as it is
StoreSummaryIfAbsent(sums, n, content) ==
    IF n \in DOMAIN sums THEN sums ELSE PutNode(sums, n, content)

\* _store_tool_summary: update_node of summary_TR-n
_store_tool_summary(sums, n, content) == PutNode(sums, n, content)

Init ==
    /\ episodes = <<>>
    /\ summaries = <<>>
    /\ resources = <<>>
    /\ tool_counter = 0
    /\ calls = <<>>
    /\ writeLog = {}
    /\ pf = NoPf
    /\ thr = [t \in Threads |-> IdleThread]
    /\ clog = <<>>
    /\ hist = [stored |-> {}, deletedBy |-> <<>>, first |-> <<>>]
    /\ fp = NoFp
    /\ graph = <<>>
    /\ services = NoServices
    /\ dash = NoDash
    /\ compressions = <<>>
    /\ edges = {}
    /\ sjob = NoJob

\* the stores add_tool_result can leave after the episode node is written
AfterStoreOn(st, entry, n) ==
    LET content == Content(entry)
        st0 == [st EXCEPT !.eps = PutNode(st.eps, n, content)]
    IN IF content.cache.op_type = "write"
       THEN Housekeeping(st0, content.cache.resource_ids, ToolResultTimestamp(entry))
       ELSE {[st |-> st0, raised |-> FALSE]}

\* the same for the store of the sequential service
AfterStore(entry, n) ==
    AfterStoreOn([eps |-> episodes, sums |-> summaries, res |-> resources], entry, n)

\* add_tool_result(entry): allocate TR-n, store the node, run the write housekeeping;
\* the call returns TR-n unless _extract_resource_ids or the housekeeping raised
AddEpisode ==
    /\ Len(calls) < MaxCalls
    /\ \E entry \in Entries :
        LET n == tool_counter + 1
        IN /\ tool_counter' = n
           /\ IF RaisesOf[entry.req]
              THEN /\ calls' = Append(calls, [id |-> n, returned |-> FALSE])
                   /\ UNCHANGED <<episodes, summaries, resources, writeLog, edges>>
              ELSE \E o \in AfterStore(entry, n) :
                      /\ episodes' = o.st.eps
                      /\ summaries' = o.st.sums
                      /\ resources' = o.st.res
                      /\ edges' = Detach(edges, NodeIds(o.st.eps, o.st.sums, compressions))
                      /\ calls' = Append(calls, [id |-> n, returned |-> ~o.raised])
                      /\ writeLog' = writeLog \cup
                            (IF CacheOf[entry.req].op_type = "write"
                             THEN {[rid |-> rid, ts |-> ToolResultTimestamp(entry), id |-> n] :
                                       rid \in Range(CacheOf[entry.req].resource_ids)}
                             ELSE {})
    /\ pf' = NoPf
    /\ UNCHANGED <<thr, clog, hist, fp, graph, services, dash, compressions, sjob>>

\* generate_summary(TR-n) for an episode in the store: the summarizer is asked,
\* the summary node is upserted with what _generate_tool_summary returned and the
\* SUMMARIZES relationship from the episode to it is merged
\* (for a tool_id with no episode node the call returns None and changes nothing)
GenerateSummaryOn(answers) ==
    /\ \E n \in DOMAIN episodes, r \in answers :
           /\ n \notin DOMAIN summaries
           /\ Cardinality(DOMAIN summaries) < MaxSummaries
           /\ summaries' = _store_tool_summary(summaries, n, _generate_tool_summary(r))
           /\ edges' = update_edge(edges, NodeIds(episodes, summaries', compressions),
                                   NodeId("tool_result", n), S_SUMMARIZES, NodeId("summary", n))
    /\ pf' = NoPf
    /\ UNCHANGED <<episodes, resources, tool_counter, calls, writeLog, thr, clog, hist, fp,
                   graph, services, dash, compressions, sjob>>

\* the sequential service is given summaries without salient data
GenerateSummary == GenerateSummaryOn(PlainAnswers)

\* preflight(action_type, action) for a request of requests: its backend calls
\* act on the store; pf records the call and what it came to
PreflightOn(requests) ==
    /\ \E req \in requests :
           \E latest \in PreflightLatest(req) :
               LET raised == PreflightRaises(latest, episodes, resources, req)
                   st == BackendRun([eps |-> episodes, sums |-> summaries, res |-> resources],
                                    PreflightCalls(latest, episodes, summaries, resources, req))
               IN /\ pf' = [called |-> TRUE, op |-> "preflight", req |-> req,
                            tool_id |-> IF raised THEN 0
                                        ELSE PreflightVerdict(latest, episodes, resources, req),
                            raised |-> raised]
                  /\ episodes' = st.eps
                  /\ summaries' = st.sums
                  /\ resources' = st.res
    /\ UNCHANGED <<tool_counter, calls, writeLog, concvars>>

\* the sequential service is asked every request
Preflight == PreflightOn(PreflightRequests)

Next == AddEpisode \/ GenerateSummary \/ Preflight

Spec == Init /\ [][Next]_vars

\* ------------------------------------------------------- concurrent calls
\* Two threads call add_tool_result and preflight on one service object.  A step
\* is one backend call (a Neo4j transaction) or one load or store of
\* self.tool_counter; no lock is taken anywhere in the service.

EntriesC ==
    {[req |-> [action_type |-> "read_file_contents", action |-> [file_path |-> Str_a_sp_b]],
      status |-> S_success, ts |-> Aware(1)],
     [req |-> [action_type |-> "create_file", action |-> [file_path |-> Str_a_sp_b]],
      status |-> S_success, ts |-> Aware(2)]}

RequestsC == {[action_type |-> "read_file_contents", action |-> [file_path |-> Str_a_sp_b]]}

At(t, pc) == thr[t].pc = pc

Goto(t, pc) == [thr EXCEPT ![t].pc = pc]

StoreUnchanged == UNCHANGED <<episodes, summaries, resources, tool_counter>>

\* the identity of the call a thread is in
CallId(t) == <<t, thr[t].k>>

\* add_tool_result is entered
CBeginAdd(t) ==
    /\ At(t, "idle")
    /\ thr[t].k < MaxThreadCalls
    /\ \E entry \in EntriesC :
           thr' = [thr EXCEPT ![t] = [IdleThread EXCEPT !.pc = "a_load", !.k = thr[t].k + 1,
                                                        !.entry = entry, !.b = Len(clog)]]
    /\ StoreUnchanged
    /\ UNCHANGED <<clog, hist, seqhist>>

\* self.tool_counter += 1: the load
CLoadCounter(t) ==
    /\ At(t, "a_load")
    /\ thr' = [thr EXCEPT ![t].pc = "a_incr", ![t].tmp = tool_counter]
    /\ StoreUnchanged
    /\ UNCHANGED <<clog, hist, seqhist>>

\* self.tool_counter += 1: the store
CStoreCounter(t) ==
    /\ At(t, "a_incr")
    /\ tool_counter' = thr[t].tmp + 1
    /\ thr' = Goto(t, "a_id")
    /\ UNCHANGED <<episodes, summaries, resources, clog, hist, seqhist>>

\* tool_id = f"TR-{self.tool_counter}"
CReadId(t) ==
    /\ At(t, "a_id")
    /\ thr' = [thr EXCEPT ![t].pc = "a_node", ![t].tid = tool_counter]
    /\ StoreUnchanged
    /\ UNCHANGED <<clog, hist, seqhist>>

\* _store_tool_result: update_node of tool_result_TR-tid
CStoreNode(t) ==
    /\ At(t, "a_node")
    /\ LET cache == CacheOf[thr[t].entry.req]
           housekeeping == cache.op_type = "write" /\ cache.resource_ids # <<>>
       IN /\ episodes' = PutNode(episodes, thr[t].tid, Content(thr[t].entry))
          /\ thr' = [thr EXCEPT ![t].pc = IF housekeeping THEN "a_upsert" ELSE "a_ret",
                                ![t].rix = 1]
          /\ hist' = [hist EXCEPT
                         !.stored = IF cache.op_type = "write" THEN @ \cup {CallId(t)} ELSE @,
                         !.first = IF thr[t].tid \in DOMAIN @ THEN @
                                   ELSE PutNode(@, thr[t].tid, Content(thr[t].entry))]
    /\ UNCHANGED <<summaries, resources, tool_counter, clog, seqhist>>

\* _upsert_resource_last_write for the resource the housekeeping loop is at
CUpsertResource(t) ==
    /\ At(t, "a_upsert")
    /\ LET rid == CacheOf[thr[t].entry.req].resource_ids[thr[t].rix]
           st == _upsert_resource_last_write(
                     [eps |-> episodes, sums |-> summaries, res |-> resources],
                     rid, ToolResultTimestamp(thr[t].entry))
       IN resources' = st.res
    /\ thr' = Goto(t, "a_scan")
    /\ UNCHANGED <<episodes, summaries, tool_counter, clog, hist, seqhist>>

\* _delete_stale_reads_for_resource: get_all_nodes, and what the loop will delete
CScanStale(t) ==
    /\ At(t, "a_scan")
    /\ \E order \in Orders(DOMAIN episodes) :
           LET rid == CacheOf[thr[t].entry.req].resource_ids[thr[t].rix]
               plan == PurgePlan(order, episodes, rid, ToolResultTimestamp(thr[t].entry))
           IN thr' = [thr EXCEPT ![t].pc = "a_del", ![t].todo = plan.todo,
                                 ![t].raised = plan.raised]
    /\ StoreUnchanged
    /\ UNCHANGED <<clog, hist, seqhist>>

\* delete_node of the summary of the next stale episode (DETACH DELETE)
CDeleteSummary(t) ==
    /\ At(t, "a_del")
    /\ thr[t].todo # <<>>
    /\ summaries' = delete_node(summaries, edges, NodeId("summary", Head(thr[t].todo)), TRUE)
    /\ edges' = Detach(edges, NodeIds(episodes, summaries', compressions))
    /\ thr' = Goto(t, "a_delnode")
    /\ UNCHANGED <<episodes, resources, tool_counter, clog, hist, calls, writeLog, pf, fp, graph,
                   services, dash, compressions, sjob>>

\* delete_node of the next stale episode
CDeleteEpisode(t) ==
    /\ At(t, "a_delnode")
    /\ LET n == Head(thr[t].todo)
       IN /\ episodes' = delete_node(episodes, edges, NodeId("tool_result", n), TRUE)
          /\ hist' = [hist EXCEPT !.deletedBy =
                         IF n \in DOMAIN episodes THEN PutNode(@, n, CallId(t)) ELSE @]
    /\ edges' = Detach(edges, NodeIds(episodes', summaries, compressions))
    /\ thr' = [thr EXCEPT ![t].pc = "a_del", ![t].todo = Tail(thr[t].todo)]
    /\ UNCHANGED <<summaries, resources, tool_counter, clog, calls, writeLog, pf, fp, graph,
                   services, dash, compressions, sjob>>

\* the loop over the snapshot has ended: the next resource id, or the end of the call
CNextResource(t) ==
    /\ At(t, "a_del")
    /\ thr[t].todo = <<>>
    /\ thr' = IF ~thr[t].raised /\ thr[t].rix < Len(CacheOf[thr[t].entry.req].resource_ids)
              THEN [thr EXCEPT ![t].pc = "a_upsert", ![t].rix = thr[t].rix + 1]
              ELSE Goto(t, "a_ret")
    /\ StoreUnchanged
    /\ UNCHANGED <<clog, hist, seqhist>>

\* add_tool_result returns tool_id (or the TypeError leaves it)
CReturnAdd(t) ==
    /\ At(t, "a_ret")
    /\ clog' = Append(clog, [op |-> "add", call |-> CallId(t), id |-> thr[t].tid,
                             returned |-> ~thr[t].raised, b |-> thr[t].b, seen |-> {},
                             fault |-> thr[t].fault])
    /\ thr' = [thr EXCEPT ![t] = [IdleThread EXCEPT !.k = thr[t].k]]
    /\ StoreUnchanged
    /\ UNCHANGED <<hist, seqhist>>

\* preflight is entered; seen is the set of writes whose node is stored by now
CBeginPreflight(t) ==
    /\ At(t, "idle")
    /\ thr[t].k < MaxThreadCalls
    /\ \E req \in RequestsC :
           thr' = [thr EXCEPT ![t] = [IdleThread EXCEPT !.pc = "p_scan", !.k = thr[t].k + 1,
                                                        !.entry = [NoEntry EXCEPT !.req = req],
                                                        !.b = Len(clog), !.seen = hist.stored]]
    /\ StoreUnchanged
    /\ UNCHANGED <<clog, hist, seqhist>>

\* preflight: get_all_nodes and the scan for the latest candidate; the candidate's
\* timestamp is parsed at the start of _is_valid_cached_result
CPreflightScan(t) ==
    /\ At(t, "p_scan")
    /\ \E order \in Orders(DOMAIN episodes) :
           LET req == thr[t].entry.req
               latest == PreflightScan(order, 1, episodes, req.action_type, LiveOf[req].tool_key, 0)
               none == latest = 0 \/ ~Parseable(episodes[latest].timestamp)
           IN thr' = [thr EXCEPT
                         ![t].pc = IF none \/ LiveOf[req].resource_ids = <<>>
                                   THEN "p_ret" ELSE "p_valid",
                         ![t].result = IF none THEN 0 ELSE latest,
                         ![t].entry.ts = IF none THEN NoTs ELSE episodes[latest].timestamp,
                         ![t].rix = 1]
    /\ StoreUnchanged
    /\ UNCHANGED <<clog, hist, seqhist>>

\* _is_valid_cached_result: _get_resource_last_write of the next resource id
CPreflightResource(t) ==
    /\ At(t, "p_valid")
    /\ LET rids == LiveOf[thr[t].entry.req].resource_ids
           ok == ResourceAllows(_get_resource_last_write(resources, rids[thr[t].rix]),
                                thr[t].entry.ts)
       IN thr' = IF ~ok THEN [thr EXCEPT ![t].pc = "p_ret", ![t].result = 0]
                 ELSE IF thr[t].rix < Len(rids) THEN [thr EXCEPT ![t].rix = thr[t].rix + 1]
                 ELSE Goto(t, "p_ret")
    /\ StoreUnchanged
    /\ UNCHANGED <<clog, hist, seqhist>>

\* preflight returns the hit, or None
CReturnPreflight(t) ==
    /\ At(t, "p_ret")
    /\ clog' = Append(clog, [op |-> "preflight", call |-> CallId(t), id |-> thr[t].result,
                             returned |-> ~thr[t].raised, b |-> thr[t].b, seen |-> thr[t].seen,
                             fault |-> thr[t].fault])
    /\ thr' = [thr EXCEPT ![t] = [IdleThread EXCEPT !.k = thr[t].k]]
    /\ StoreUnchanged
    /\ UNCHANGED <<hist, seqhist>>

NextC ==
    \E t \in Threads :
        \/ CBeginAdd(t)
        \/ CLoadCounter(t)
        \/ CStoreCounter(t)
        \/ CReadId(t)
        \/ CStoreNode(t)
        \/ CUpsertResource(t)
        \/ CScanStale(t)
        \/ CDeleteSummary(t)
        \/ CDeleteEpisode(t)
        \/ CNextResource(t)
        \/ CReturnAdd(t)
        \/ CBeginPreflight(t)
        \/ CPreflightScan(t)
        \/ CPreflightResource(t)
        \/ CReturnPreflight(t)

SpecC == Init /\ [][NextC]_vars

\* ------------------------------------------- backend failures and restarts
\* One thread of control calls the service step by step; a backend call (a Neo4j
\* transaction) may raise, and the service object may be constructed anew on the
\* same workflow.

EntriesF ==
    EntriesC \cup
    {[req |-> [action_type |-> "execute_command", action |-> [command |-> Cmd_rm]],
      status |-> S_success, ts |-> NoTs]}

\* the steps that are backend calls: update_node, get_all_nodes, delete_node,
\* get_node_by_metadata
BackendSteps == {"a_node", "a_upsert", "a_scan", "a_del", "a_delnode", "p_scan", "p_valid"}

\* the backend calls that have raised so far
FaultsSoFar ==
    Cardinality({i \in 1..Len(clog) : clog[i].fault # ""})
    + Cardinality({t \in Threads : thr[t].fault # ""})

RestartsSoFar == Cardinality({i \in 1..Len(clog) : clog[i].op = "restart"})

\* add_tool_result is entered
FBeginAdd ==
    /\ At("t1", "idle")
    /\ thr["t1"].k < MaxFaultCalls
    /\ \E entry \in EntriesF :
           thr' = [thr EXCEPT !["t1"] = [IdleThread EXCEPT !.pc = "a_load", !.k = thr["t1"].k + 1,
                                                           !.entry = entry, !.b = Len(clog)]]
    /\ StoreUnchanged
    /\ UNCHANGED <<clog, hist, seqhist>>

\* preflight is entered
FBeginPreflight ==
    /\ At("t1", "idle")
    /\ thr["t1"].k < MaxFaultCalls
    /\ \E req \in RequestsC :
           thr' = [thr EXCEPT !["t1"] = [IdleThread EXCEPT !.pc = "p_scan", !.k = thr["t1"].k + 1,
                                                           !.entry = [NoEntry EXCEPT !.req = req],
                                                           !.b = Len(clog), !.seen = hist.stored]]
    /\ StoreUnchanged
    /\ UNCHANGED <<clog, hist, seqhist>>

\* the backend call of the current step raises: neither add_tool_result nor
\* preflight catches it, so the call ends with the exception
FFail ==
    /\ thr["t1"].pc \in BackendSteps
    /\ thr["t1"].todo = <<>> => thr["t1"].pc # "a_del"
    /\ FaultsSoFar < MaxFaults
    /\ thr' = [thr EXCEPT !["t1"].fault = thr["t1"].pc,
                          !["t1"].raised = TRUE,
                          !["t1"].result = 0,
                          !["t1"].pc = IF thr["t1"].pc \in {"p_scan", "p_valid"}
                                       THEN "p_ret" ELSE "a_ret"]
    /\ StoreUnchanged
    /\ UNCHANGED <<clog, hist, seqhist>>

\* the backend calls of generate_summary that may raise: the read of the episode
\* node, the update_node and the update_edge of _store_tool_summary
SummarySteps == {"s_get", "s_put", "s_edge"}

\* generate_summary(TR-n) as one call: None when the episode node is missing or
\* a backend call raised (the try of generate_summary catches it); the summary
\* node is written unless the failure came before update_node returned, and the
\* SUMMARIZES relationship is merged when update_edge did not raise
FGenerateSummary ==
    /\ At("t1", "idle")
    /\ thr["t1"].k < MaxFaultCalls
    /\ \E n \in DOMAIN hist.first, r \in LlmResponses, fault \in {""} \cup SummarySteps :
           LET present == n \in DOMAIN episodes
               asked == present /\ fault # "s_get"
               stored == asked /\ fault # "s_put"
               summary == _generate_tool_summary(r)
           IN /\ fault # "" => FaultsSoFar < MaxFaults
              /\ ~present => (fault = "" /\ r.kind = "json")
              /\ summaries' = IF stored THEN _store_tool_summary(summaries, n, summary)
                               ELSE summaries
              /\ edges' = IF stored /\ fault = ""
                           THEN update_edge(edges, NodeIds(episodes, summaries', compressions),
                                            NodeId("tool_result", n), S_SUMMARIZES,
                                            NodeId("summary", n))
                           ELSE edges
              /\ clog' = Append(clog, [op |-> "generate_summary", call |-> <<"t1", thr["t1"].k + 1>>,
                                       id |-> n, returned |-> stored /\ fault = "",
                                       b |-> Len(clog), seen |-> {}, fault |-> fault,
                                       asked |-> asked, response |-> r, result |-> summary])
    /\ thr' = [thr EXCEPT !["t1"].k = thr["t1"].k + 1]
    /\ UNCHANGED <<episodes, resources, tool_counter, hist, calls, writeLog, pf, fp, graph,
                   services, dash, compressions, sjob>>

\* _get_next_tool_counter: the largest N of the tool_result_TR-N nodes, 0 if none
MaxToolNumber(eps) ==
    IF DOMAIN eps = {} THEN 0 ELSE CHOOSE n \in DOMAIN eps : \A m \in DOMAIN eps : m <= n

\* KnowledgeGraphService(workflow_id) is constructed anew on the workflow; when
\* get_all_nodes raises, _get_next_tool_counter returns 0
FRestart ==
    /\ At("t1", "idle")
    /\ clog # <<>>
    /\ RestartsSoFar < MaxRestarts
    /\ \E failed \in {FALSE, TRUE} :
           /\ failed => FaultsSoFar < MaxFaults
           /\ tool_counter' = IF failed THEN 0 ELSE MaxToolNumber(episodes)
           /\ clog' = Append(clog, [op |-> "restart", call |-> CallId("t1"), id |-> 0,
                                    returned |-> TRUE, b |-> Len(clog), seen |-> {},
                                    fault |-> IF failed THEN "init" ELSE ""])
    /\ UNCHANGED <<episodes, summaries, resources, thr, hist, seqhist>>

NextF ==
    \/ FBeginAdd
    \/ CLoadCounter("t1")
    \/ CStoreCounter("t1")
    \/ CReadId("t1")
    \/ CStoreNode("t1")
    \/ CUpsertResource("t1")
    \/ CScanStale("t1")
    \/ CDeleteSummary("t1")
    \/ CDeleteEpisode("t1")
    \/ CNextResource("t1")
    \/ CReturnAdd("t1")
    \/ FBeginPreflight
    \/ CPreflightScan("t1")
    \/ CPreflightResource("t1")
    \/ CReturnPreflight("t1")
    \/ FGenerateSummary
    \/ FFail
    \/ FRestart

SpecF == Init /\ [][NextF]_vars

\* ------------------------------------------------------ the fingerprinter
\* _make_tool_key on actions as Python sees them: a dict is its keys in insertion
\* order and its values.  The action under test is rewritten step by step (two
\* files swapped, two keys swapped in insertion order, the action normalized) and
\* its tool_key computed anew.

\* the keys of the actions under test, in the order sort_keys puts them
KeyOrder == <<"args", "cwd", "files">>

FileNames == {<<"a">>, <<"b">>}

FileLists == UNION {[1..n -> FileNames] : n \in 0..MaxFiles}

ArgLists == {<<<<"x">>, <<"y">>>>, <<<<"y">>, <<"x">>>>}

CwdValues == {NoneValue, <<>>, <<"d">>}

\* the sequences of distinct keys
KeyLists ==
    {ks \in UNION {[1..n -> Range(KeyOrder)] : n \in 0..Len(KeyOrder)} :
        \A i, j \in 1..Len(ks) : i # j => ks[i] # ks[j]}

\* the dicts with these keys: every choice of the values
DictsOver(ks) ==
    {[keys |-> ks,
      val |-> [k \in Range(ks) |-> CASE k = "files" -> f [] k = "args" -> a [] k = "cwd" -> c]] :
        f \in FileLists, a \in ArgLists, c \in CwdValues}

ActionDicts == UNION {DictsOver(ks) : ks \in KeyLists}

\* _normalize_action on a dict: the values are rewritten in place, so the
\* insertion order of the keys stays
normalize(d) == [keys |-> d.keys, val |-> _normalize_action(d.val)]

\* a mutant of json.dumps(norm, sort_keys=True): the keys stay in insertion order
json_dumps_unsorted(d) == [i \in 1..Len(d.keys) |-> <<d.keys[i], d.val[d.keys[i]]>>]

\* json.dumps(norm, sort_keys=True, separators=(",", ":")): the items in key order
json_dumps(d) ==
    LET ks == SelectSeq(KeyOrder, LAMBDA k : k \in Range(d.keys))
    IN [i \in 1..Len(ks) |-> <<ks[i], d.val[ks[i]]>>]

\* _make_tool_key: action_type and the digest of the JSON text of the normalized
\* action (the SHA-256 prefix is injective here)
tool_key(action_type, d) == <<action_type, json_dumps(normalize(d))>>

\* s with the elements at i and i + 1 swapped
SwapAt(s, i) ==
    [k \in 1..Len(s) |-> IF k = i THEN s[i + 1] ELSE IF k = i + 1 THEN s[i] ELSE s[k]]

UnderTest(op, action_type, d) ==
    [op |-> op, action_type |-> action_type, action |-> d, key |-> tool_key(action_type, d)]

InitK ==
    /\ episodes = <<>>
    /\ summaries = <<>>
    /\ resources = <<>>
    /\ tool_counter = 0
    /\ calls = <<>>
    /\ writeLog = {}
    /\ pf = NoPf
    /\ thr = [t \in Threads |-> IdleThread]
    /\ clog = <<>>
    /\ hist = [stored |-> {}, deletedBy |-> <<>>, first |-> <<>>]
    /\ fp \in {UnderTest("given", "modify_code", d) : d \in ActionDicts}
    /\ graph = <<>>
    /\ services = NoServices
    /\ dash = NoDash
    /\ compressions = <<>>
    /\ edges = {}
    /\ sjob = NoJob

FingerprintFrame ==
    UNCHANGED <<episodes, summaries, resources, tool_counter, calls, writeLog, pf, thr, clog, hist,
                sidevars>>

\* two neighbouring elements of files change places
PermuteFiles ==
    /\ "files" \in Range(fp.action.keys)
    /\ \E i \in 1..(Len(fp.action.val.files) - 1) :
           fp' = UnderTest("permute_files", fp.action_type,
                           [fp.action EXCEPT !.val.files = SwapAt(@, i)])
    /\ FingerprintFrame

\* two neighbouring keys change places in the insertion order
ReorderKeys ==
    /\ \E i \in 1..(Len(fp.action.keys) - 1) :
           fp' = UnderTest("reorder_keys", fp.action_type,
                           [fp.action EXCEPT !.keys = SwapAt(@, i)])
    /\ FingerprintFrame

\* the action is replaced by its normal form
NormalizeAction ==
    /\ fp' = UnderTest("normalize", fp.action_type, normalize(fp.action))
    /\ FingerprintFrame

NextK == PermuteFiles \/ ReorderKeys \/ NormalizeAction

SpecK == InitK /\ [][NextK]_vars

\* the key cwd is added with the value None to an action that has no cwd
AddNullCwd ==
    /\ "cwd" \notin Range(fp.action.keys)
    /\ fp' = UnderTest("add_null_cwd", fp.action_type,
                       [keys |-> Append(fp.action.keys, "cwd"),
                        val |-> [k \in Range(fp.action.keys) \cup {"cwd"} |->
                                    IF k = "cwd" THEN NoneValue ELSE fp.action.val[k]]])
    /\ FingerprintFrame

\* the fingerprinter on actions with cwd missing and cwd null
NextN == AddNullCwd \/ NormalizeAction

SpecN == InitK /\ [][NextN]_vars

\* ------------------------------------------------- two workflows, one database
\* Two service objects, one per workflow identifier, work on the same database.
\* A node is keyed by its id alone: update_node is MERGE (n:Node {id: $id}) and
\* then SET of summary, content and workflow_id; every read and delete matches
\* the id together with the workflow_id.

\* what get_all_nodes and get_node_by_metadata show to the service of workflow w
ViewOf(g, w) ==
    LET mine(kind) == {id.key : id \in {x \in DOMAIN g : x.kind = kind /\ g[x].workflow_id = w}}
    IN [eps |-> [n \in mine("tool_result") |-> g[NodeId("tool_result", n)].content],
        sums |-> [n \in mine("summary") |-> g[NodeId("summary", n)].content],
        res |-> [k \in mine("resource") |-> g[NodeId("resource", k)].content]]

IdsOf(st) ==
    {NodeId("tool_result", n) : n \in DOMAIN st.eps}
    \cup {NodeId("summary", n) : n \in DOMAIN st.sums}
    \cup {NodeId("resource", k) : k \in DOMAIN st.res}

ContentOf(st, id) ==
    CASE id.kind = "tool_result" -> st.eps[id.key]
      [] id.kind = "summary" -> st.sums[id.key]
      [] id.kind = "resource" -> st.res[id.key]

\* the database after the service of workflow w took its view to st: the nodes of
\* st are w's; a node of w that is not in st was deleted; a node of another
\* workflow stays unless an update_node of w named its id (written: the ids that
\* w wrote and may have deleted again)
Commit(g, w, st, written) ==
    LET ids == IdsOf(st)
        kept == {id \in DOMAIN g : id \notin ids /\ id \notin written /\ g[id].workflow_id # w}
    IN [id \in ids \cup kept |->
            IF id \in ids THEN [workflow_id |-> w, content |-> ContentOf(st, id)] ELSE g[id]]

\* reset_graph_by_workflow: DETACH DELETE of the nodes whose workflow_id is w
reset_graph_by_workflow(g, w) ==
    [id \in {x \in DOMAIN g : g[x].workflow_id # w} |-> g[id]]

\* add_tool_result on the service of workflow w
WAddEpisode(w) ==
    /\ Len(calls) < MaxWorkflowCalls
    /\ \E entry \in EntriesF :
           LET n == services[w].tool_counter + 1
           IN \E o \in AfterStoreOn(ViewOf(graph, w), entry, n) :
                  /\ graph' = Commit(graph, w, o.st, {NodeId("tool_result", n)})
                  /\ edges' = Detach(edges, DOMAIN graph')
                  /\ services' = [services EXCEPT ![w].tool_counter = n]
                  /\ calls' = Append(calls, [workflow_id |-> w, op |-> "add_tool_result",
                                             id |-> n, returned |-> ~o.raised])
    /\ UNCHANGED <<episodes, summaries, resources, tool_counter, writeLog, pf, thr, clog, hist,
                   fp, dash, compressions, sjob>>

\* generate_summary(TR-n) on the service of workflow w, for an episode it can read
WGenerateSummary(w) ==
    /\ Len(calls) < MaxWorkflowCalls
    /\ \E n \in DOMAIN ViewOf(graph, w).eps, r \in PlainAnswers :
           LET st == ViewOf(graph, w)
               st1 == [st EXCEPT !.sums = _store_tool_summary(@, n, _generate_tool_summary(r))]
           IN /\ graph' = Commit(graph, w, st1, {NodeId("summary", n)})
              /\ edges' = update_edge(edges, DOMAIN graph', NodeId("tool_result", n),
                                      S_SUMMARIZES, NodeId("summary", n))
              /\ calls' = Append(calls, [workflow_id |-> w, op |-> "generate_summary",
                                         id |-> n, returned |-> TRUE])
    /\ UNCHANGED <<episodes, summaries, resources, tool_counter, writeLog, pf, thr, clog, hist,
                   fp, services, dash, compressions, sjob>>

\* reset_workflow on the service of workflow w
WResetWorkflow(w) ==
    /\ Len(calls) < MaxWorkflowCalls
    /\ graph' = reset_graph_by_workflow(graph, w)
    /\ edges' = Detach(edges, DOMAIN graph')
    /\ services' = [services EXCEPT ![w].tool_counter = 0]
    /\ calls' = Append(calls, [workflow_id |-> w, op |-> "reset_workflow", id |-> 0,
                               returned |-> TRUE])
    /\ UNCHANGED <<episodes, summaries, resources, tool_counter, writeLog, pf, thr, clog, hist,
                   fp, dash, compressions, sjob>>

\* Neo4jService.reset_entire_graph: DETACH DELETE of every node of the database
reset_entire_graph(g) == [id \in {} |-> g[id]]

\* reset_entire_graph on the neo4j_service of the service of workflow w: no
\* tool_counter is reset
WResetEntireGraph(w) ==
    /\ Len(calls) < MaxWorkflowCalls
    /\ graph' = reset_entire_graph(graph)
    /\ edges' = Detach(edges, DOMAIN graph')
    /\ calls' = Append(calls, [workflow_id |-> w, op |-> "reset_entire_graph", id |-> 0,
                               returned |-> TRUE])
    /\ UNCHANGED <<episodes, summaries, resources, tool_counter, writeLog, pf, thr, clog, hist,
                   fp, services, dash, compressions, sjob>>

NextW ==
    \E w \in Workflows :
        WAddEpisode(w) \/ WGenerateSummary(w) \/ WResetWorkflow(w) \/ WResetEntireGraph(w)

SpecW == Init /\ [][NextW]_vars

\* ------------------------------------------------------------- agent loop
\*
\* run_entry_with_cache on one service: a read-classified entry is preflighted
\* and a hit is rendered instead of stored; a miss or a write goes to
\* add_tool_result. generate_summary and generate_dashboard run between entries.

\* the entries of the agent loop: a read with and without a timestamp key, three
\* writes and a failed read.  The result of an entry is its status alone, or
\* status, output and error as synthetic_data_generator writes them: the output
\* and a null error on success, an empty output and the message on error
EntriesA ==
    {[req |-> [action_type |-> "read_file_contents", action |-> [file_path |-> Str_a_sp_b]],
      status |-> S_success, ts |-> Aware(1)],
     [req |-> [action_type |-> "read_file_contents", action |-> [file_path |-> Str_a_sp_b]],
      status |-> S_success, ts |-> NoTs, output |-> Str_ok, error |-> NoneValue],
     [req |-> [action_type |-> "create_file", action |-> [file_path |-> Str_a_sp_b]],
      status |-> S_success, ts |-> Aware(2)],
     [req |-> [action_type |-> "modify_code", action |-> [files |-> <<Str_g, Str_a_sp_b>>]],
      status |-> S_success, ts |-> NoTs],
     [req |-> [action_type |-> "execute_command", action |-> [command |-> Cmd_rm]],
      status |-> S_success, ts |-> NoTs],
     [req |-> [action_type |-> "read_file_contents", action |-> [file_path |-> Str_q]],
      status |-> S_error, ts |-> Aware(1), output |-> <<>>, error |-> Str_no]}

\* the line preflight returns as "text": the first of the three that is truthy
PreflightText(sums, n, action_type) ==
    LET a == retrieve_tool_result_with_salient_data(sums, n)
        b == retrieve_tool_result(sums, n)
    IN IF a # NoneValue /\ a # <<>> THEN a
       ELSE IF b # <<>> THEN b
       ELSE <<"Reused prior result for ", action_type>>

\* render_reused_result: f"[REUSED {tool_id}] {text} [FROM CACHE]"
render_reused_result(n, text) ==
    <<"[REUSED ">> \o ToolIdText(n) \o <<"]", " ">> \o text \o <<" ", "[FROM CACHE]">>

\* run_entry_with_cache: only an entry classified as read is preflighted
Preflighted(op_type) == op_type = "read"

\* what add_tool_result appends to writeLog for an entry stored as TR-n
WritesOf(entry, n) ==
    IF CacheOf[entry.req].op_type = "write"
    THEN {[rid |-> rid, ts |-> ToolResultTimestamp(entry), id |-> n] :
              rid \in Range(CacheOf[entry.req].resource_ids)}
    ELSE {}

\* run_entry_with_cache(kg_service, tool_entry) for an entry of entries: calls
\* records what it returned (preflight raises on none of these requests, and its
\* backend calls are reads)
RunEntryWithCacheOn(entries, max_calls) ==
    /\ Len(calls) < max_calls
    /\ \E entry \in entries :
        LET op_type == _classify_op(entry.req.action_type, entry.req.action)
            base == [op |-> "run_entry_with_cache", entry |-> entry, op_type |-> op_type,
                     preflighted |-> Preflighted(op_type)]
            add == LET n == tool_counter + 1
                   IN /\ tool_counter' = n
                      /\ \E o \in AfterStore(entry, n) :
                             /\ episodes' = o.st.eps
                             /\ summaries' = o.st.sums
                             /\ resources' = o.st.res
                             /\ edges' = Detach(edges,
                                                 NodeIds(o.st.eps, o.st.sums, compressions))
                             /\ calls' = Append(calls,
                                    base @@ [reused |-> FALSE, id |-> n, returned |-> ~o.raised,
                                             rendered |-> <<>>])
                             /\ writeLog' = writeLog \cup WritesOf(entry, n)
        IN IF Preflighted(op_type)
           THEN \E latest \in PreflightLatest(entry.req) :
                    LET hit == PreflightVerdict(latest, episodes, resources, entry.req)
                    IN IF hit # 0
                       THEN /\ calls' = Append(calls,
                                    base @@ [reused |-> TRUE, id |-> hit, returned |-> TRUE,
                                             rendered |-> render_reused_result(hit,
                                                 PreflightText(summaries, hit,
                                                               entry.req.action_type))])
                            /\ UNCHANGED <<episodes, summaries, resources, tool_counter,
                                           writeLog, edges>>
                       ELSE add
           ELSE add
    /\ pf' = NoPf
    /\ dash' = NoDash
    /\ UNCHANGED <<thr, clog, hist, fp, graph, services, compressions, sjob>>

\* the agent loop on the entries of EntriesA
RunEntryWithCache == RunEntryWithCacheOn(EntriesA, MaxAgentCalls)

\* ---- the dashboard

\* a text is a sequence of pieces, each a string

UpperChar(c) ==
    IF \E i \in 1..26 : LowerCase[i] = c
    THEN UpperCase[CHOOSE i \in 1..26 : LowerCase[i] = c]
    ELSE c

\* str.upper
Upper(s) == [i \in 1..Len(s) |-> UpperChar(s[i])]

\* ---- JSON texts
\* A JSON value is <<"null">>, <<"str", s>>, <<"list", values>> or
\* <<"dict", items>>, the items being <<key, value>> pairs in insertion order.

\* the escape of one character of a JSON string: json.dumps puts a backslash
\* before a quote and before a backslash and writes a line feed as \n (the
\* other characters of the runs are printable ASCII and stand as they are)
JsonEscapeChar(c) ==
    IF c = "\"" THEN <<"\\", "\"">>
    ELSE IF c = "\\" THEN <<"\\", "\\">>
    ELSE IF c = "\n" THEN <<"\\", "n">>
    ELSE <<c>>

RECURSIVE JsonEscape(_)
JsonEscape(s) == IF s = <<>> THEN <<>> ELSE JsonEscapeChar(Head(s)) \o JsonEscape(Tail(s))

\* a JSON string
Quoted(s) == <<"\"">> \o JsonEscape(s) \o <<"\"">>

\* the line feed and the indentation that json.dumps(indent=2) writes before an
\* item at the given nesting level
NewlineIndent(level) == <<"\n">> \o [i \in 1..level |-> "  "]

\* json.dumps(value) when indented is FALSE (items joined by ", "), and
\* json.dumps(value, indent=2) when it is TRUE (each item on a line of its own,
\* items joined by ","); keys and values are joined by ": " in both
RECURSIVE JsonText(_, _, _)
JsonText(value, indented, level) ==
    LET Item(x) == IF value[1] = "dict"
                   THEN Quoted(<<x[1]>>) \o <<": ">> \o JsonText(x[2], indented, level + 1)
                   ELSE JsonText(x, indented, level + 1)
        separator == IF indented THEN <<",">> \o NewlineIndent(level + 1) ELSE <<", ">>
        Join[i \in 1..Len(value[2])] ==
            IF i = 1 THEN Item(value[2][1]) ELSE Join[i - 1] \o separator \o Item(value[2][i])
        open == IF value[1] = "dict" THEN "{" ELSE "["
        close == IF value[1] = "dict" THEN "}" ELSE "]"
    IN CASE value[1] = "null" -> <<"null">>
         [] value[1] = "str" -> Quoted(value[2])
         [] OTHER ->
              IF value[2] = <<>> THEN <<open, close>>
              ELSE <<open>> \o (IF indented THEN NewlineIndent(level + 1) ELSE <<>>)
                   \o Join[Len(value[2])]
                   \o (IF indented THEN NewlineIndent(level) ELSE <<>>) \o <<close>>

\* a list of strings as a JSON value
JsonStrings(l) == <<"list", [i \in 1..Len(l) |-> <<"str", l[i]>>]>>

\* an action that holds one of file_path, files, command as a JSON value
JsonAction(a) ==
    <<"dict",
      IF "file_path" \in DOMAIN a THEN << <<"file_path", <<"str", a.file_path>> >> >>
      ELSE IF "files" \in DOMAIN a THEN << <<"files", JsonStrings(a.files)>> >>
      ELSE << <<"command", <<"str", a.command>> >> >> >>

\* output or error of a result as the JSON items it gives: none without the key
JsonResultKey(key, v) ==
    IF v = NoKey THEN <<>>
    ELSE IF v = NoneValue THEN << <<key, <<"null">> >> >>
    ELSE << <<key, <<"str", v>> >> >>

\* the stored dict of an episode as a JSON value: the keys of the entry, then
\* cache; an entry without a timestamp key has none in the stored JSON either
\* (the timestamp is written as its kind and number, the hash of the tool_key as
\* "sha256")
JsonContent(c) ==
    <<"dict",
      << <<"action_type", <<"str", <<c.action_type>> >> >>,
         <<"action", JsonAction(c.action)>>,
         <<"result", <<"dict", << <<"status", <<"str", c.status>> >> >>
                               \o JsonResultKey("output", c.output)
                               \o JsonResultKey("error", c.error)>> >> >>
      \o (IF c.timestamp.kind = "none" THEN <<>>
          ELSE << <<"timestamp", <<"str", <<c.timestamp.kind>> \o str_int(c.timestamp.t)>> >> >>)
      \o << <<"cache", <<"dict",
               << <<"tool_key", <<"str", <<c.action_type, ":", "sha256">> >> >>,
                  <<"resource_ids", JsonStrings(c.cache.resource_ids)>>,
                  <<"op_type", <<"str", <<c.cache.op_type>> >> >> >> >> >> >> >>

\* json.dumps(tool.action)
json_action(a) == JsonText(JsonAction(a), FALSE, 0)

\* json.dumps(content) of a stored episode, as get_all_tool_results counts it
json_content(c) == JsonText(JsonContent(c), FALSE, 0)

\* result_text of add_tool_result, the content of the stored node:
\* json.dumps(to_store, indent=2)
result_text(c) == JsonText(JsonContent(c), TRUE, 0)

\* TokenCounter.count_tokens: the length of the encoding of the text.  The
\* encoder is the gpt-4o encoding of the tiktoken library, which is not part of
\* the repository; it is taken to give one token for each piece of the text, so
\* that the count is a function of the text and grows with the line feeds and
\* the indentation of an indented text
count_tokens(text) == Len(text)

\* sort(key=int(N)) of get_all_tool_results, as insertion into a sorted list
RECURSIVE InsertByN(_, _)
InsertByN(l, n) ==
    IF l = <<>> THEN <<n>>
    ELSE IF n < Head(l) THEN <<n>> \o l
    ELSE <<Head(l)>> \o InsertByN(Tail(l), n)

RECURSIVE SortByN(_)
SortByN(l) == IF l = <<>> THEN <<>> ELSE InsertByN(SortByN(Tail(l)), Head(l))

\* get_all_tool_results on the nodes as the backend lists them (order): one
\* ToolResult a node, token_count counted on json.dumps(content), sorted by N
get_all_tool_results(order, eps) ==
    LET ns == SortByN(order)
    IN [i \in 1..Len(ns) |->
            [tool_id |-> ns[i],
             action_type |-> eps[ns[i]].action_type,
             action |-> eps[ns[i]].action,
             status |-> eps[ns[i]].status,
             output |-> eps[ns[i]].output,
             error |-> eps[ns[i]].error,
             token_count |-> count_tokens(json_content(eps[ns[i]]))]]

\* group_info.get("tool_ids", [])
GroupToolIds(group_info) ==
    IF "tool_ids" \in DOMAIN group_info THEN group_info.tool_ids ELSE <<>>

\* compressed_tool_ids: the union of the tool_ids of the groups
CompressedToolIds(groups) == UNION {Range(GroupToolIds(groups[i])) : i \in 1..Len(groups)}

\* a mutant of generate_dashboard: expanded_tools is ignored
IsCompressedIgnoringExpanded(tool_id, compressed_tool_ids, expanded_tools) ==
    tool_id \in compressed_tool_ids

\* the test of generate_dashboard for the compressed rendering of a tool
IsCompressed(tool_id, compressed_tool_ids, expanded_tools) ==
    tool_id \in compressed_tool_ids /\ tool_id \notin expanded_tools

\* f"{n:,}" for n below a million
FormatThousands(n) ==
    IF n < 1000 THEN str_int(n)
    ELSE str_int(n \div 1000) \o <<",">>
         \o <<DigitChars[((n % 1000) \div 100) + 1], DigitChars[((n % 100) \div 10) + 1],
              DigitChars[(n % 10) + 1]>>

\* below a thousand tokens, the totals whose percentage lies half way between two
\* tenths and is formatted upwards
HalfWayUp == {50, 350, 650, 750, 850}

\* f"{(total / 100000) * 100:.1f}" for a total below a thousand
FormatPercent(total) ==
    LET tenths == IF total % 100 = 50
                  THEN (total \div 100) + (IF total \in HalfWayUp THEN 1 ELSE 0)
                  ELSE (total + 50) \div 100
    IN str_int(tenths \div 10) \o <<".">> \o str_int(tenths % 10)

\* the one line of a compressed tool
CompressedLine(sums, tool) ==
    LET summary_with_data == retrieve_tool_result_with_salient_data(sums, tool.tool_id)
        text == IF summary_with_data # NoneValue /\ summary_with_data # <<>>
                THEN summary_with_data
                ELSE retrieve_tool_result(sums, tool.tool_id)
    IN <<"[">> \o ToolIdText(tool.tool_id) \o <<"]", " ">> \o text \o <<" ", "[COMPRESSED]">>

\* tool.result.get(key, "") is truthy: a string that is not empty
ResultShown(v) == v # NoKey /\ v # NoneValue /\ v # <<>>

\* the lines of an expanded tool: header, Input, Result, then Output and Error
\* when the result has a non-empty one (the piece " (warning sign)" stands for
\* the glyph U+26A0 U+FE0F after a space)
ExpandedLines(tool) ==
    LET status == Upper(tool.status)
        warning == IF tool.status = S_error \/ tool.token_count > 5000
                   THEN <<" (warning sign)">> ELSE <<>>
    IN << <<"[">> \o ToolIdText(tool.tool_id) \o <<"]", " ", tool.action_type, " - ">>
          \o status \o <<" (">> \o FormatThousands(tool.token_count) \o <<" tokens)">>
          \o warning,
          <<"Input: ">> \o json_action(tool.action),
          <<"Result: ">> \o Lower(status) >>
       \o (IF ResultShown(tool.output) THEN << <<"Output: ">> \o tool.output >> ELSE <<>>)
       \o (IF ResultShown(tool.error) THEN << <<"Error: ">> \o tool.error >> ELSE <<>>)

\* total_tokens += tool.token_count stands after the if, for every tool
CountedInTotal(compressed) == TRUE

RECURSIVE SumTokens(_, _)
SumTokens(tools, counted) ==
    IF tools = <<>> THEN 0
    ELSE (IF counted[1] THEN Head(tools).token_count ELSE 0)
         + SumTokens(Tail(tools), Tail(counted))

RECURSIVE Flatten(_)
Flatten(ls) == IF ls = <<>> THEN <<>> ELSE Head(ls) \o Flatten(Tail(ls))

\* generate_dashboard: lines is what "\n" joins; blocks are the lines of each
\* turn of the loop over the tools
generate_dashboard(order, eps, sums, groups, expanded_tools) ==
    LET tool_results == get_all_tool_results(order, eps)
        compressed_tool_ids == CompressedToolIds(groups)
        compressed == [i \in 1..Len(tool_results) |->
                          IsCompressed(tool_results[i].tool_id, compressed_tool_ids,
                                       expanded_tools)]
        blocks == [i \in 1..Len(tool_results) |->
                      (IF compressed[i]
                       THEN <<CompressedLine(sums, tool_results[i])>>
                       ELSE ExpandedLines(tool_results[i])) \o << <<>> >>]
        total_tokens == SumTokens(tool_results,
                                  [i \in 1..Len(tool_results) |-> CountedInTotal(compressed[i])])
    IN IF tool_results = <<>>
       THEN [lines |-> << <<"=== ACTIVE TOOL RESULTS ===">>, <<"No tool results yet.">> >>,
             blocks |-> <<>>, has_footer |-> FALSE, total_tokens |-> 0]
       ELSE [lines |-> << <<"=== ACTIVE TOOL RESULTS ===">> >> \o Flatten(blocks) \o
                       << <<"Token Usage: ">> \o FormatThousands(total_tokens)
                          \o <<" / ", "100,000", " (">> \o FormatPercent(total_tokens)
                          \o <<"%)">> >>,
             blocks |-> blocks, has_footer |-> TRUE, total_tokens |-> total_tokens]

\* the compressed_tool_groups handed to generate_dashboard, as the list of the
\* values of the dict: none, one group, two groups, a group without tool_ids
GroupChoices ==
    {<<>>,
     <<[tool_ids |-> <<1, 2>>]>>,
     <<[tool_ids |-> <<1>>], [tool_ids |-> <<2, 3>>]>>,
     <<[summary |-> <<"S">>]>>,
     <<[tool_ids |-> <<3>>], [summary |-> <<"S">>]>>}

\* generate_dashboard(compressed_tool_groups, expanded_tools), rendered once on a
\* store (every store is reached with no rendering on it yet)
Dashboard ==
    /\ ~dash.called
    /\ \E groups \in GroupChoices, expanded_tools \in SUBSET (1..MaxAgentCalls),
          order \in Orders(DOMAIN episodes) :
           dash' = [called |-> TRUE, groups |-> groups, expanded_tools |-> expanded_tools,
                    out |-> generate_dashboard(order, episodes, summaries, groups,
                                               expanded_tools)]
    /\ UNCHANGED <<episodes, summaries, resources, tool_counter, calls, writeLog, pf, thr, clog,
                   hist, fp, graph, services, sumvars>>

\* the summaries of the agent loop carry every kind of salient data
GenerateSalientSummary == GenerateSummaryOn(JsonAnswers)

NextA == RunEntryWithCache \/ GenerateSalientSummary \/ Dashboard

SpecA == Init /\ [][NextA]_vars

\* ---------------------------------------------------------- command runs
\*
\* The agent loop on execute_command entries: a read command has the timestamp
\* 1, a write command (cp, rm) the timestamp 2.

EntriesE ==
    {[req |-> r, status |-> S_success,
      ts |-> IF _classify_op(r.action_type, r.action) = "read" THEN Aware(1) ELSE Aware(2)] :
        r \in RequestsE}

RunCommand == RunEntryWithCacheOn(EntriesE, MaxCommandCalls)

NextE == RunCommand

SpecE == Init /\ [][NextE]_vars

\* ------------------------------------------------- summaries and compression
\* One caller (thread t1) adds episodes step by step as above; a second caller
\* makes generate_summary, compress_tool_results, delete_edge and
\* reset_entire_graph calls.  A step of the second caller is one backend call (a
\* Neo4j transaction), the summarizer call taken together with the update_node
\* that follows it; the steps of the two callers interleave freely.

\* the answers of the summarizer in these runs
SummaryAnswers == PlainAnswers

\* the tool numbers the second caller asks about
JobIds == 1..MaxThreadCalls

\* the tool_id lists compress_tool_results is called with: one or two ids the
\* service has handed out, in any order, repeated or not
CompressIds == UNION {[1..l -> 1..tool_counter] : l \in 1..MaxCompressLen}

\* what the second caller leaves unchanged
JobFrame ==
    UNCHANGED <<episodes, resources, tool_counter, calls, writeLog, pf, thr, clog, hist, fp,
                graph, services, dash>>

\* the ToolSummary object generate_summary returns
ToolSummary(n) == <<"ToolSummary", n>>

\* generate_summary(TR-n) is entered; allocated and tombstoned tell whether TR-n
\* had been handed out and whether its episode had been deleted by then
EnterSummary(job, n) ==
    [job EXCEPT !.pc = "s_get", !.tool_id = n, !.found = FALSE, !.returned = NoneValue,
                !.allocated = tool_counter, !.tombstoned = n \in DOMAIN hist.deletedBy]

\* generate_summary returns value: to its caller, or into compress_tool_results
ReturnSummary(job, value) ==
    IF job.op = "generate_summary"
    THEN [job EXCEPT !.pc = "idle", !.ended = TRUE, !.returned = value]
    ELSE [job EXCEPT !.pc = "c_reget", !.returned = value]

\* a mutant of SummaryJob: the call goes on without testing tool_node
SummaryJobUnchecked(eps, job) ==
    [job EXCEPT !.pc = "s_put", !.found = job.tool_id \in DOMAIN eps]

\* generate_summary after get_node_by_metadata, "if not tool_node": the call
\* returns None, or goes on to the summarizer
SummaryJob(eps, job) ==
    IF job.tool_id \notin DOMAIN eps
    THEN ReturnSummary(job, NoneValue)
    ELSE [job EXCEPT !.pc = "s_put", !.found = TRUE]

\* " | ".join(summaries)
RECURSIVE JoinBar(_)
JoinBar(lines) ==
    IF lines = <<>> THEN <<>>
    ELSE IF Len(lines) = 1 THEN Head(lines)
    ELSE Head(lines) \o <<" | ">> \o JoinBar(Tail(lines))

\* the line of one tool_id in compress_tool_results: f"[{tool_id}] {summary}",
\* or "Summary not available" when the second read finds no summary node either
SummaryLine(sums, n) ==
    <<"[">> \o ToolIdText(n) \o <<"]", " ">>
    \o (IF n \in DOMAIN sums THEN sums[n].summary ELSE <<"Summary not available">>)

\* compress_tool_results after the line of tool_ids[i] is appended: the next
\* tool_id, or the update_node of the compression node
NextLine(job, line) ==
    [job EXCEPT !.summaries = Append(job.summaries, line),
                !.i = job.i + 1,
                !.pc = IF job.i < Len(job.tool_ids) THEN "c_get" ELSE "c_node"]

\* generate_summary(TR-n) is called
SumBegin ==
    /\ sjob.pc = "idle"
    /\ sjob.k < MaxSummaryCalls
    /\ \E n \in JobIds :
           sjob' = EnterSummary([NoJob EXCEPT !.k = sjob.k + 1, !.op = "generate_summary"], n)
    /\ UNCHANGED <<summaries, compressions, edges>>
    /\ JobFrame

\* generate_summary: get_node_by_metadata of the episode
SumGet ==
    /\ sjob.pc = "s_get"
    /\ sjob' = SummaryJob(episodes, sjob)
    /\ UNCHANGED <<summaries, compressions, edges>>
    /\ JobFrame

\* generate_summary: _generate_tool_summary and the update_node of _store_tool_summary
SumPut ==
    /\ sjob.pc = "s_put"
    /\ \E r \in SummaryAnswers :
           summaries' = _store_tool_summary(summaries, sjob.tool_id, _generate_tool_summary(r))
    /\ sjob' = [sjob EXCEPT !.pc = "s_edge"]
    /\ UNCHANGED <<compressions, edges>>
    /\ JobFrame

\* generate_summary: the update_edge of _store_tool_summary; the summary is returned
SumEdge ==
    /\ sjob.pc = "s_edge"
    /\ edges' = update_edge(edges, NodeIds(episodes, summaries, compressions),
                            NodeId("tool_result", sjob.tool_id), S_SUMMARIZES,
                            NodeId("summary", sjob.tool_id))
    /\ sjob' = ReturnSummary(sjob, ToolSummary(sjob.tool_id))
    /\ UNCHANGED <<summaries, compressions>>
    /\ JobFrame

\* compress_tool_results(tool_ids) is called
CmpBegin ==
    /\ sjob.pc = "idle"
    /\ sjob.k < MaxSummaryCalls
    /\ \E tool_ids \in CompressIds :
           sjob' = [NoJob EXCEPT !.k = sjob.k + 1, !.op = "compress_tool_results",
                                 !.pc = "c_get", !.tool_ids = tool_ids, !.i = 1]
    /\ UNCHANGED <<summaries, compressions, edges>>
    /\ JobFrame

\* compress_tool_results: get_node_by_metadata of the summary of tool_ids[i]; its
\* line is appended, or generate_summary is called
CmpGet ==
    /\ sjob.pc = "c_get"
    /\ LET n == sjob.tool_ids[sjob.i]
       IN sjob' = IF n \in DOMAIN summaries THEN NextLine(sjob, SummaryLine(summaries, n))
                  ELSE EnterSummary(sjob, n)
    /\ UNCHANGED <<summaries, compressions, edges>>
    /\ JobFrame

\* compress_tool_results: the second get_node_by_metadata of the summary, after
\* generate_summary has returned
CmpReget ==
    /\ sjob.pc = "c_reget"
    /\ sjob' = NextLine(sjob, SummaryLine(summaries, sjob.tool_ids[sjob.i]))
    /\ UNCHANGED <<summaries, compressions, edges>>
    /\ JobFrame

\* compress_tool_results: update_node of compression_<tool_ids joined by "-">
CmpNode ==
    /\ sjob.pc = "c_node"
    /\ compressions' = PutNode(compressions, sjob.tool_ids,
                               [compressed_tools |-> sjob.tool_ids,
                                summary |-> JoinBar(sjob.summaries),
                                timestamp |-> NowTs])
    /\ sjob' = [sjob EXCEPT !.pc = "c_edge", !.i = 1, !.summaries = <<>>]
    /\ UNCHANGED <<summaries, edges>>
    /\ JobFrame

\* compress_tool_results: the update_edge to tool_ids[i]; after the last one the
\* call returns True
CmpEdge ==
    /\ sjob.pc = "c_edge"
    /\ edges' = update_edge(edges, NodeIds(episodes, summaries, compressions),
                            NodeId("compression", sjob.tool_ids), S_COMPRESSES,
                            NodeId("tool_result", sjob.tool_ids[sjob.i]))
    /\ sjob' = IF sjob.i < Len(sjob.tool_ids) THEN [sjob EXCEPT !.i = sjob.i + 1]
               ELSE [sjob EXCEPT !.pc = "idle", !.ended = TRUE, !.i = 0, !.tool_ids = <<>>]
    /\ UNCHANGED <<summaries, compressions>>
    /\ JobFrame

\* Neo4jService.delete_edge between two nodes that have a relationship
DeleteEdge ==
    /\ sjob.pc = "idle"
    /\ sjob.k < MaxSummaryCalls
    /\ \E e \in edges : edges' = delete_edge(edges, e.src, e.dst)
    /\ sjob' = [NoJob EXCEPT !.k = sjob.k + 1, !.op = "delete_edge", !.ended = TRUE]
    /\ UNCHANGED <<summaries, compressions>>
    /\ JobFrame

\* Neo4jService.delete_node of an episode or a summary node, with force or without
DeleteNode ==
    /\ sjob.pc = "idle"
    /\ sjob.k < MaxSummaryCalls
    /\ \E n \in JobIds, kind \in {"tool_result", "summary"}, force \in BOOLEAN :
           /\ episodes' = IF kind = "tool_result"
                          THEN delete_node(episodes, edges, NodeId(kind, n), force)
                          ELSE episodes
           /\ summaries' = IF kind = "summary"
                           THEN delete_node(summaries, edges, NodeId(kind, n), force)
                           ELSE summaries
    /\ edges' = Detach(edges, NodeIds(episodes', summaries', compressions))
    /\ sjob' = [NoJob EXCEPT !.k = sjob.k + 1, !.op = "delete_node", !.ended = TRUE]
    /\ UNCHANGED <<resources, compressions, tool_counter, calls, writeLog, pf, thr, clog, hist,
                   fp, graph, services, dash>>

\* Neo4jService.reset_entire_graph: every node and relationship is deleted; the
\* tool_counter of the service stays
ResetEntireGraph ==
    /\ sjob.pc = "idle"
    /\ sjob.k < MaxSummaryCalls
    /\ episodes' = <<>>
    /\ summaries' = <<>>
    /\ resources' = <<>>
    /\ compressions' = <<>>
    /\ edges' = {}
    /\ sjob' = [NoJob EXCEPT !.k = sjob.k + 1, !.op = "reset_entire_graph", !.ended = TRUE]
    /\ UNCHANGED <<tool_counter, calls, writeLog, pf, thr, clog, hist, fp, graph, services, dash>>

NextS ==
    \/ CBeginAdd("t1")
    \/ CLoadCounter("t1")
    \/ CStoreCounter("t1")
    \/ CReadId("t1")
    \/ CStoreNode("t1")
    \/ CUpsertResource("t1")
    \/ CScanStale("t1")
    \/ CDeleteSummary("t1")
    \/ CDeleteEpisode("t1")
    \/ CNextResource("t1")
    \/ CReturnAdd("t1")
    \/ SumBegin
    \/ SumGet
    \/ SumPut
    \/ SumEdge
    \/ CmpBegin
    \/ CmpGet
    \/ CmpReget
    \/ CmpNode
    \/ CmpEdge
    \/ DeleteEdge
    \/ DeleteNode
    \/ ResetEntireGraph

SpecS == Init /\ [][NextS]_vars

\* A third caller preflights the read of the file while the other two work.  Its
\* call is in pf from the entry to the return: a step is one backend call of
\* preflight (a Neo4j transaction), and the steps of the other callers fall
\* between them.

\* the third caller is at pc of preflight
PAt(pc) == pf.op = "preflight" /\ ~pf.called /\ pf.pc = pc

\* a step of preflight: its backend calls cs act on the store
PStore(cs) ==
    LET st == BackendRun([eps |-> episodes, sums |-> summaries, res |-> resources], cs)
    IN /\ episodes' = st.eps
       /\ summaries' = st.sums
       /\ resources' = st.res
       /\ edges' = Detach(edges, NodeIds(st.eps, st.sums, compressions))
       /\ UNCHANGED <<tool_counter, calls, writeLog, thr, clog, hist, fp, graph, services, dash,
                      compressions, sjob>>

\* preflight is entered: _make_tool_key of the request
PBegin ==
    /\ pf = NoPf
    /\ \E req \in RequestsC :
           pf' = [called |-> FALSE, op |-> "preflight", req |-> req, pc |-> "p_scan",
                  latest |-> 0, ts |-> NoTs, rix |-> 1, text |-> NoneValue, raised |-> FALSE]
    /\ PStore(<<>>)

\* get_all_nodes and the scan for the latest candidate; the candidate's timestamp
\* is parsed and the resource ids are extracted at the start of
\* _is_valid_cached_result, before any resource node is asked for
PScan ==
    /\ PAt("p_scan")
    /\ \E latest \in PreflightLatest(pf.req) :
           LET none == latest = 0 \/ ~Parseable(episodes[latest].timestamp)
               raised == PreflightRaises(latest, episodes, resources, pf.req)
           IN pf' = [pf EXCEPT
                        !.pc = IF none \/ raised THEN "p_ret"
                               ELSE IF LiveOf[pf.req].resource_ids = <<>> THEN "p_line"
                               ELSE "p_valid",
                        !.latest = IF none \/ raised THEN 0 ELSE latest,
                        !.ts = IF none \/ raised THEN NoTs ELSE episodes[latest].timestamp,
                        !.raised = raised]
    /\ PStore(<<BackendCall("get_all_nodes", "all", <<>>, 0)>>)

\* a mutant of _is_valid_cached_result: a candidate it rejects is evicted
ValidityCallsEvicting(rid, latest, ok) ==
    <<BackendCall("get_node_by_metadata", "resource", _resource_node_id(rid), 0)>>
    \o (IF ok THEN <<>> ELSE <<BackendCall("delete_node", "episode", <<>>, latest)>>)

\* the backend calls of one turn of the loop of _is_valid_cached_result on the
\* candidate latest: _get_resource_last_write reads the node of the resource rid
ValidityCalls(rid, latest, ok) ==
    <<BackendCall("get_node_by_metadata", "resource", _resource_node_id(rid), 0)>>

\* _is_valid_cached_result: _get_resource_last_write of the next resource id
PResource ==
    /\ PAt("p_valid")
    /\ LET rids == LiveOf[pf.req].resource_ids
           ok == ResourceAllows(_get_resource_last_write(resources, rids[pf.rix]), pf.ts)
       IN /\ pf' = IF ~ok THEN [pf EXCEPT !.pc = "p_ret", !.latest = 0]
                   ELSE IF pf.rix < Len(rids) THEN [pf EXCEPT !.rix = pf.rix + 1]
                   ELSE [pf EXCEPT !.pc = "p_line"]
          /\ PStore(ValidityCalls(rids[pf.rix], pf.latest, ok))

\* retrieve_tool_result_with_salient_data of the hit: the summary node is read
PSalient ==
    /\ PAt("p_line")
    /\ LET line == retrieve_tool_result_with_salient_data(summaries, pf.latest)
       IN pf' = IF Truthy(line) THEN [pf EXCEPT !.pc = "p_ret", !.text = line]
                ELSE [pf EXCEPT !.pc = "p_again"]
    /\ PStore(<<BackendCall("get_node_by_metadata", "summary", <<>>, pf.latest)>>)

\* retrieve_tool_result(summary=True) of the hit, when the first line was falsy:
\* the summary node is read again; the last resort is the line of the action type
PSummary ==
    /\ PAt("p_again")
    /\ LET line == retrieve_tool_result(summaries, pf.latest)
       IN pf' = [pf EXCEPT !.pc = "p_ret",
                           !.text = IF line # <<>> THEN line
                                    ELSE <<"Reused prior result for ", pf.req.action_type>>]
    /\ PStore(<<BackendCall("get_node_by_metadata", "summary", <<>>, pf.latest)>>)

\* preflight returns {"tool_id", "text"} of the hit, or None (tool_id 0), or raises
PReturn ==
    /\ PAt("p_ret")
    /\ pf' = [called |-> TRUE, op |-> "preflight", req |-> pf.req, tool_id |-> pf.latest,
              text |-> pf.text, raised |-> pf.raised]
    /\ PStore(<<>>)

NextP ==
    \/ CBeginAdd("t1")
    \/ CLoadCounter("t1")
    \/ CStoreCounter("t1")
    \/ CReadId("t1")
    \/ CStoreNode("t1")
    \/ CUpsertResource("t1")
    \/ CScanStale("t1")
    \/ CDeleteSummary("t1")
    \/ CDeleteEpisode("t1")
    \/ CNextResource("t1")
    \/ CReturnAdd("t1")
    \/ SumBegin
    \/ SumGet
    \/ SumPut
    \/ SumEdge
    \/ CmpBegin
    \/ CmpGet
    \/ CmpReget
    \/ CmpNode
    \/ CmpEdge
    \/ PBegin
    \/ PScan
    \/ PResource
    \/ PSalient
    \/ PSummary
    \/ PReturn

SpecP == Init /\ [][NextP]_vars

\* ------------------------------------------------------------------ claims

\* the request that repeats the action of a stored episode
RequestOf(c) == [action_type |-> c.action_type, action |-> c.action]

\* episode n is a candidate of preflight for req: it passes the filter of the scan
IsCandidate(n, req) ==
    /\ n \in DOMAIN episodes
    /\ Matches(episodes[n], req.action_type, LiveOf[req].tool_key)

\* C1: after a write on resource r at t_w was added, a preflight whose resources
\* contain r finds no prior cached read with a timestamp earlier than t_w: that
\* candidate's episode and summary nodes are gone and the preflight is a miss.
C1_WriteInvalidatesPriorCandidates ==
    pf.called =>
        \A w \in writeLog : \A n \in 1..tool_counter :
            (/\ w.ts.kind = "aware"
             /\ w.rid \in Range(LiveOf[pf.req].resource_ids)
             /\ n < w.id
             /\ IsCandidate(n, pf.req)
             /\ episodes[n].cache.op_type = "read"
             /\ episodes[n].timestamp.kind = "aware"
             /\ episodes[n].timestamp.t < w.ts.t)
            => FALSE

\* C2: preflight hits episode e only if no write touching a resource of e with a
\* timestamp later than e's has ever been added.
C2_HitOnlyIfNoLaterWrite ==
    (pf.called /\ pf.tool_id # 0) =>
        \A w \in writeLog :
            ~(/\ w.ts.kind = "aware"
              /\ w.rid \in Range(episodes[pf.tool_id].cache.resource_ids)
              /\ episodes[pf.tool_id].timestamp.t < w.ts.t)

\* C3: with two successful episodes of the request's action_type and tool_key in
\* the store and no write on any of their resources ever added, preflight hits,
\* and the hit is an episode whose timestamp is not earlier than either's.
C3_HitIsTheLaterEpisode ==
    pf.called =>
        \A e1, e2 \in DOMAIN episodes :
            (/\ e1 # e2
             /\ IsCandidate(e1, pf.req) /\ IsCandidate(e2, pf.req)
             /\ episodes[e1].timestamp.kind = "aware"
             /\ episodes[e2].timestamp.kind = "aware"
             /\ \A w \in writeLog :
                    /\ w.rid \notin Range(episodes[e1].cache.resource_ids)
                    /\ w.rid \notin Range(episodes[e2].cache.resource_ids))
            => /\ pf.tool_id # 0
               /\ episodes[pf.tool_id].timestamp.t >= episodes[e1].timestamp.t
               /\ episodes[pf.tool_id].timestamp.t >= episodes[e2].timestamp.t

\* C4: adding a write none of whose resource ids is a resource id of a stored
\* successful read e that preflight hits leaves e and its summary in the store,
\* and preflight for e's action still hits e.
C4_UnrelatedWriteKeepsRead ==
    [][\A n \in DOMAIN episodes :
          (/\ writeLog' # writeLog
           /\ episodes[n].cache.op_type = "read"
           /\ episodes[n].status = S_success
           /\ \A w \in writeLog' \ writeLog :
                  w.rid \notin Range(episodes[n].cache.resource_ids)
           /\ PreflightResults(RequestOf(episodes[n])) = {n})
          => /\ n \in DOMAIN episodes'
             /\ (n \in DOMAIN summaries => n \in DOMAIN summaries')
             /\ PreflightResults(RequestOf(episodes[n]))' = {n}]_vars

\* C5: preflight never returns a hit on an episode whose result.status is not success.
C5_HitIsSuccess ==
    (pf.called /\ pf.tool_id # 0) =>
        /\ pf.tool_id \in DOMAIN episodes
        /\ episodes[pf.tool_id].status = S_success

\* C5 witness: preflight was called while the most recent episode of the request's
\* action_type and tool_key is a failed one and an older successful one exists.
C5_Witness ==
    /\ pf.called
    /\ \E n, m \in DOMAIN episodes :
           /\ episodes[n].action_type = pf.req.action_type
           /\ episodes[n].cache.tool_key = LiveOf[pf.req].tool_key
           /\ episodes[n].status = S_error
           /\ IsCandidate(m, pf.req)
           /\ episodes[n].timestamp.kind = "aware"
           /\ episodes[m].timestamp.kind = "aware"
           /\ episodes[m].timestamp.t < episodes[n].timestamp.t
           /\ pf.tool_id = m

\* C6: the last_write_ts of a resource node never decreases.
C6_LastWriteMonotonic ==
    [][\A k \in DOMAIN resources :
          /\ k \in DOMAIN resources'
          /\ (resources[k].kind = "aware" /\ resources'[k].kind = "aware")
                => resources'[k].t >= resources[k].t]_vars

\* the tool numbers of the calls that returned, in call order
ReturnedIds == SelectSeq(calls, LAMBDA c : c.returned)

\* C7: the tool_ids returned by a sequence of add_episode calls are TR-1, TR-2,
\* ..., TR-n in call order, with no gap and no repeat.
C7_ReturnedIdsDense ==
    \A i \in 1..Len(ReturnedIds) : ReturnedIds[i].id = i

\* C10: when add_episode returns tool_id T, the node tool_result_T is in the store.
C10_ReturnedEpisodePresent ==
    [][(/\ Len(calls') = Len(calls) + 1
        /\ calls'[Len(calls')].returned)
       => calls'[Len(calls')].id \in DOMAIN episodes']_vars

\* calls i and j of the log ran concurrently: j was entered before i ended
Overlap(i, j) == i < j /\ clog[j].b < i

\* the add_tool_result calls entered so far
AddsBegun ==
    Cardinality({i \in 1..Len(clog) : clog[i].op = "add"})
    + Cardinality({t \in Threads : thr[t].pc \in
          {"a_load", "a_incr", "a_id", "a_node", "a_upsert", "a_scan", "a_del", "a_delnode", "a_ret"}})

\* C8: two add_episode calls that ran concurrently got distinct tool_ids
\* (consecutive ones when they are the only two calls), and the node of each is in
\* the store unless housekeeping tombstoned it.
C8_ConcurrentAddsDistinct ==
    \A i, j \in 1..Len(clog) :
        (clog[i].op = "add" /\ clog[j].op = "add" /\ Overlap(i, j)) =>
            /\ clog[i].id # clog[j].id
            /\ \A n \in {clog[i].id, clog[j].id} :
                   n \in DOMAIN episodes \/ n \in DOMAIN hist.deletedBy
            /\ AddsBegun = 2 => (clog[i].id - clog[j].id) \in {-1, 1}

\* C9: a preflight entered after a write's episode node was stored never returns
\* a hit on an episode that this write's housekeeping deletes.
C9_NoHitOnTombstoned ==
    \A i \in 1..Len(clog) :
        (clog[i].op = "preflight" /\ clog[i].id # 0) =>
            ~(/\ clog[i].id \in DOMAIN hist.deletedBy
              /\ hist.deletedBy[clog[i].id] \in clog[i].seen)


\* C11: when the backend write of the episode node fails, the next successful
\* add_episode returns the tool_id the failed call would have used.
C11_FailedStoreKeepsAllocation ==
    \A i \in 1..(Len(clog) - 1) :
        (/\ clog[i].op = "add"
         /\ clog[i].fault = "a_node"
         /\ clog[i + 1].op = "add"
         /\ clog[i + 1].returned) => clog[i + 1].id = clog[i].id

\* the timestamp the housekeeping of a stored write episode ran with
WriteTimestampOf(content) == IF content.timestamp = NoTs THEN NowTs ELSE content.timestamp

\* episode n is a read that the housekeeping of write episode w has to tombstone
StaleFor(n, w) ==
    /\ n \in DOMAIN hist.first
    /\ w \in DOMAIN hist.first
    /\ hist.first[w].cache.op_type = "write"
    /\ Parseable(WriteTimestampOf(hist.first[w]))
    /\ \E rid \in Range(hist.first[w].cache.resource_ids) :
           StaleVerdict(hist.first[n], rid, WriteTimestampOf(hist.first[w])) = "delete"

HousekeepingSteps == {"a_upsert", "a_scan", "a_del", "a_delnode"}

\* C12: after a backend failure during the housekeeping of a write w, the call has
\* raised and no later preflight returns a hit on a read that w had to tombstone.
C12_FailedHousekeepingStaysSafe ==
    \A i, j \in 1..Len(clog) :
        (i < j /\ clog[i].op = "add" /\ clog[i].fault \in HousekeepingSteps) =>
            /\ ~clog[i].returned
            /\ (clog[j].op = "preflight" /\ clog[j].id # 0) => ~StaleFor(clog[j].id, clog[i].id)

\* C13: a tombstoned tool_id never names a stored episode again, and preflight
\* never returns it again.
C13_NoResurrection ==
    \A n \in DOMAIN hist.deletedBy :
        /\ n \notin DOMAIN episodes
        /\ \A t \in Threads : thr[t].pc = "p_ret" => thr[t].result # n

\* C14: the content of an episode node is the content it was created with.
C14_EpisodeNeverRewritten ==
    \A n \in DOMAIN episodes : episodes[n] = hist.first[n]

\* C15: housekeeping never deletes a write episode: every write episode that was
\* added is still in the store.
C15_WritesNeverDeleted ==
    \A w \in writeLog : w.id \in DOMAIN episodes

\* the last call of the step-level run has just ended
JustEnded(op) ==
    /\ thr["t1"].pc = "idle"
    /\ clog # <<>>
    /\ clog[Len(clog)].op = op

\* C16: after a summary is stored again for a tool_id, the one node summary_TR-N
\* holds the content of the latest call.
C16_SecondSummaryWins ==
    (JustEnded("generate_summary") /\ clog[Len(clog)].returned) =>
        /\ clog[Len(clog)].id \in DOMAIN summaries
        /\ summaries[clog[Len(clog)].id] = clog[Len(clog)].result

\* C16 witness: a second generate_summary for the same tool_id has just returned a
\* summary that differs from the one an earlier call stored.
C16_Witness ==
    /\ JustEnded("generate_summary")
    /\ clog[Len(clog)].returned
    /\ \E j \in 1..(Len(clog) - 1) :
           /\ clog[j].op = "generate_summary"
           /\ clog[j].returned
           /\ clog[j].id = clog[Len(clog)].id
           /\ clog[j].result # clog[Len(clog)].result
           /\ \A k \in (j + 1)..(Len(clog) - 1) : clog[k].op = "preflight"

\* the summarizer was asked in the last call and did not deliver a JSON object
SummarizerFailedIn(log) ==
    /\ log # <<>>
    /\ log[Len(log)].op = "generate_summary"
    /\ log[Len(log)].asked
    /\ log[Len(log)].fault = ""
    /\ log[Len(log)].response.kind # "json"

\* C20: when the summarizer fails or returns no JSON, generate_summary stores a
\* summary "Summary generation failed: <reason>" with salient_data null, and the
\* episode node stays as it was.
C20_FailedSummaryIsPersisted ==
    [][(clog' # clog /\ SummarizerFailedIn(clog')) =>
          LET n == clog'[Len(clog')].id
          IN /\ n \in DOMAIN summaries'
             /\ Len(summaries'[n].summary) > 1
             /\ summaries'[n].summary[1] = "Summary generation failed: "
             /\ summaries'[n].salient_data = NoneValue
             /\ n \in DOMAIN episodes'
             /\ episodes' = episodes]_vars

\* C20 witness: a generate_summary whose summarizer call failed has just ended and
\* the episode is in the store.
C20_Witness ==
    /\ JustEnded("generate_summary")
    /\ SummarizerFailedIn(clog)
    /\ clog[Len(clog)].id \in DOMAIN episodes

\* C17: swapping files, reordering the keys or normalizing the action leaves the
\* tool_key as it was, and normalizing a normalized action changes nothing.
C17_FingerprintStable ==
    [][/\ fp'.key = fp.key
       /\ normalize(normalize(fp.action)) = normalize(fp.action)
       /\ tool_key(fp.action_type, normalize(fp.action)) = fp.key]_vars

\* C17 witness: two files have just changed places and the list is not in
\* sorted order.
C17_Witness ==
    /\ fp.op = "permute_files"
    /\ Len(fp.action.keys) > 1
    /\ fp.action.keys # SelectSeq(KeyOrder, LAMBDA k : k \in Range(fp.action.keys))
    /\ fp.action.val.files # SortedStrings(fp.action.val.files)

\* C18: a preflight call leaves the episode, summary, compression-group and
\* resource nodes, the relationships and the tool counter as they were at every
\* one of its steps, whether it hits or misses, while the calls of the other
\* callers go on between its steps (pf changes at every step of the preflight
\* call, from its entry to its return, and at no other step).
C18_PreflightChangesNothing ==
    [][pf' # pf =>
          /\ episodes' = episodes
          /\ summaries' = summaries
          /\ compressions' = compressions
          /\ resources' = resources
          /\ edges' = edges
          /\ tool_counter' = tool_counter]_vars

\* C18 witness: a preflight has missed on a stored candidate that a later write
\* made stale, in a store that holds a summary, a compression group and their
\* relationships.
C18_Witness ==
    /\ pf.called
    /\ pf.tool_id = 0
    /\ summaries # <<>>
    /\ compressions # <<>>
    /\ \E e \in edges : e.rel = S_COMPRESSES
    /\ \E n \in DOMAIN episodes :
           /\ IsCandidate(n, pf.req)
           /\ Parseable(episodes[n].timestamp)
           /\ \E rid \in Range(LiveOf[pf.req].resource_ids) :
                  ~ResourceAllows(_get_resource_last_write(resources, rid), episodes[n].timestamp)

\* the validity check of preflight rejects the stored candidate n of req
Rejected(n, req) ==
    \/ ~Parseable(episodes[n].timestamp)
    \/ \E rid \in Range(LiveOf[req].resource_ids) :
           LET lw == _get_resource_last_write(resources, rid)
           IN /\ lw.kind # "none"
              /\ \/ lw.kind # episodes[n].timestamp.kind
                 \/ episodes[n].timestamp.t < lw.t

\* C19: preflight never raises, and it returns None when no episode matches, when
\* only failed ones match, and when every matching one has a missing or
\* unparseable timestamp or is rejected by a resource's last_write_ts (unparseable
\* or newer).
C19_MissWithoutRaising ==
    pf.called =>
        /\ ~pf.raised
        /\ (\A n \in DOMAIN episodes : IsCandidate(n, pf.req) => Rejected(n, pf.req))
               => pf.tool_id = 0

\* C19 witness: a preflight has returned None on a candidate whose resource holds
\* an unparseable last_write_ts.
C19_Witness ==
    /\ pf.called
    /\ pf.tool_id = 0
    /\ ~pf.raised
    /\ \E n \in DOMAIN episodes :
           /\ IsCandidate(n, pf.req)
           /\ Parseable(episodes[n].timestamp)
           /\ \E rid \in Range(LiveOf[pf.req].resource_ids) :
                  _get_resource_last_write(resources, rid).kind = "bad"

\* C22: the tool_id that add_tool_result allocates is not the id of an episode
\* present in the workflow, also after the service was constructed anew on a
\* non-empty workflow or while the enumeration of the backend failed.
C22_AllocatedIdIsNew ==
    At("t1", "a_node") => thr["t1"].tid \notin DOMAIN episodes

\* C23: the episodes present in the store are TR-1..TR-n for some n, with no gap.
C23_EpisodesDense ==
    \E n \in 0..MaxCalls : DOMAIN episodes = 1..n

\* the condition under which housekeeping for (resource_id, t_write) is to delete
\* the episode e: a successful read-type episode on the resource whose timestamp
\* is unparseable or strictly earlier than t_write
StaleRead(e, resource_id, t_write) ==
    /\ e.action_type \in {"read_file_contents", "query_codebase", "search_documentation",
                          "search_internet", "retrieve_integration_methods", "execute_command"}
    /\ e.status = S_success
    /\ resource_id \in Range(e.cache.resource_ids)
    /\ \/ ~Parseable(e.timestamp)
       \/ e.timestamp.kind = t_write.kind /\ e.timestamp.t < t_write.t

\* the timestamps of e and of the write are in one time scale, or one of them is
\* no timestamp at all
Comparable(e, t_write) ==
    (Parseable(e.timestamp) /\ Parseable(t_write)) => e.timestamp.kind = t_write.kind

\* C27: the housekeeping of a write on (resource_id, t_write) deletes exactly the
\* stored episodes that are stale reads of the resource; an episode with the
\* timestamp t_write is kept and stays valid, and every kept episode and summary
\* is unchanged.
C27_HousekeepingDeletesExactlyStale ==
    [][\A w \in writeLog' \ writeLog : \A n \in DOMAIN episodes :
          Comparable(episodes[n], w.ts) =>
              /\ n \notin DOMAIN episodes' <=> StaleRead(episodes[n], w.rid, w.ts)
              /\ n \in DOMAIN episodes' => episodes'[n] = episodes[n]
              /\ n \in DOMAIN summaries =>
                     IF n \in DOMAIN episodes'
                     THEN n \in DOMAIN summaries' /\ summaries'[n] = summaries[n]
                     ELSE n \notin DOMAIN summaries'
              /\ (/\ episodes[n].timestamp = w.ts
                  /\ Parseable(w.ts)
                  /\ w.rid \in Range(episodes[n].cache.resource_ids))
                     => _is_valid_cached_result(episodes[n].timestamp,
                                                RequestOf(episodes[n]), resources')]_vars

\* C30: once a write on r at t_w has been added, a successful read of r added
\* later with a parseable timestamp not earlier than t_w is served by preflight
\* for the same action, as long as no write on r has a later timestamp.
C30_CacheRefills ==
    pf.called =>
        \A n \in DOMAIN episodes : \A w \in writeLog :
            (/\ IsCandidate(n, pf.req)
             /\ episodes[n].cache.op_type = "read"
             /\ w.rid \in Range(LiveOf[pf.req].resource_ids)
             /\ w.id < n
             /\ episodes[n].timestamp.kind = "aware"
             /\ \A w2 \in writeLog :
                    w2.rid \in Range(LiveOf[pf.req].resource_ids) =>
                        /\ w2.ts.kind = "aware"
                        /\ w2.ts.t <= episodes[n].timestamp.t)
            => pf.tool_id # 0

\* the nodes of workflow v in the database
NodesOf(g, v) == [id \in {x \in DOMAIN g : g[x].workflow_id = v} |-> g[id].content]

\* C21: a call on the service of one workflow leaves the nodes of every other
\* workflow as they were.
C21_OtherWorkflowsUntouched ==
    [][calls' # calls =>
          \A v \in Workflows \ {calls'[Len(calls')].workflow_id} :
              NodesOf(graph', v) = NodesOf(graph, v)]_vars

\* C24: in the agent loop, the same successful read processed twice on a fresh
\* store, with nothing in between, stores one episode: the second call is a
\* preflight hit on TR-1 and its rendering begins [REUSED TR-1].
C24_SecondReadReuses ==
    (/\ Len(calls) >= 2
     /\ calls[1].op_type = "read"
     /\ calls[1].entry.status = S_success
     /\ calls[2].entry = calls[1].entry)
    => /\ calls[2].reused
       /\ calls[2].id = 1
       /\ Len(calls[2].rendered) >= 4
       /\ SubSeq(calls[2].rendered, 1, 4) = <<"[REUSED ", "TR-", "1", "]">>
       /\ Len(calls) = 2 => DOMAIN episodes = {1}

\* the sum over the episodes S of the store of their token_count, the tokenizer
\* length of the stored JSON form
RECURSIVE EpisodeTokens(_)
EpisodeTokens(S) ==
    IF S = {} THEN 0
    ELSE LET n == CHOOSE x \in S : TRUE
         IN count_tokens(result_text(episodes[n])) + EpisodeTokens(S \ {n})

\* C25: the Token Usage total of a dashboard is the sum of token_count over all
\* episodes of the store, whatever groups and expanded tools were given.
C25_TokenUsageIsSum ==
    (dash.called /\ dash.out.has_footer) =>
        LET sum == EpisodeTokens(DOMAIN episodes)
            footer == dash.out.lines[Len(dash.out.lines)]
            shown == <<"Token Usage: ">> \o FormatThousands(sum) \o <<" / ">>
        IN /\ dash.out.total_tokens = sum
           /\ Len(footer) >= Len(shown)
           /\ SubSeq(footer, 1, Len(shown)) = shown

\* the lines of a compressed episode: one line ending [COMPRESSED], then the spacing
CompressedForm(block, n) ==
    /\ Len(block) = 2
    /\ block[2] = <<>>
    /\ SubSeq(block[1], 1, 4) = <<"[">> \o ToolIdText(n) \o <<"]">>
    /\ block[1][Len(block[1])] = "[COMPRESSED]"

\* the header of the expanded block of episode n: [TR-N] <action_type> - <STATUS>
\* (<tokens> tokens), with the warning sign after it for a failed episode (no
\* episode of the runs has more than 5000 tokens)
ExpandedHeader(line, n) ==
    LET e == episodes[n]
        start == <<"[">> \o ToolIdText(n) \o <<"]", " ", e.action_type, " - ">>
                 \o Upper(e.status) \o <<" (">>
        end == IF e.status = S_error THEN <<" tokens)", " (warning sign)">>
               ELSE <<" tokens)">>
    IN /\ Len(line) > Len(start) + Len(end)
       /\ SubSeq(line, 1, Len(start)) = start
       /\ SubSeq(line, Len(line) - Len(end) + 1, Len(line)) = end
       /\ \A i \in (Len(start) + 1)..(Len(line) - Len(end)) :
              line[i] \in Range(DigitChars) \cup {","}

\* the lines of an expanded episode: the header, Input with the JSON of the
\* action, Result with the status in lower case, Output and Error when the
\* result has a non-empty one, then the spacing
ExpandedForm(block, n) ==
    LET e == episodes[n]
        rest == << <<"Input: ">> \o json_action(e.action), <<"Result: ">> \o Lower(e.status) >>
                \o (IF e.output \notin {NoKey, NoneValue, <<>>}
                    THEN << <<"Output: ">> \o e.output >> ELSE <<>>)
                \o (IF e.error \notin {NoKey, NoneValue, <<>>}
                    THEN << <<"Error: ">> \o e.error >> ELSE <<>>)
                \o << <<>> >>
    IN /\ Len(block) = Len(rest) + 1
       /\ ExpandedHeader(block[1], n)
       /\ Tail(block) = rest

\* C26: the dashboard shows the episodes in ascending N; TR-N is one line ending
\* [COMPRESSED] exactly when N is in the tool_ids of some group and not among
\* the expanded tools, and the full block otherwise.
C26_CompressedIffGroupedNotExpanded ==
    (dash.called /\ dash.out.has_footer) =>
        LET blocks == dash.out.blocks
            grouped == UNION {Range(GroupToolIds(dash.groups[i])) : i \in 1..Len(dash.groups)}
        IN /\ SubSeq(dash.out.lines, 2, Len(dash.out.lines) - 1) = Flatten(blocks)
           /\ \E ids \in Orders(DOMAIN episodes) :
                  /\ \A i, j \in 1..Len(ids) : i < j => ids[i] < ids[j]
                  /\ Len(blocks) = Len(ids)
                  /\ \A i \in 1..Len(ids) :
                         IF ids[i] \in grouped /\ ids[i] \notin dash.expanded_tools
                         THEN CompressedForm(blocks[i], ids[i])
                         ELSE ExpandedForm(blocks[i], ids[i])

\* three episodes, a group covering the first two, TR-2 expanded: TR-1 is
\* compressed with its summary, TR-2 is rendered in full with its Output line, and
\* the failed TR-3, whose file name holds a quote and a backslash, with its Error
\* line
C26_Witness ==
    /\ dash.called
    /\ {1, 2, 3} \subseteq DOMAIN episodes
    /\ 1 \in DOMAIN summaries
    /\ dash.groups = <<[tool_ids |-> <<1, 2>>]>>
    /\ dash.expanded_tools = {2}
    /\ CompressedForm(dash.out.blocks[1], 1)
    /\ ExpandedForm(dash.out.blocks[2], 2)
    /\ episodes[2].output = Str_ok
    /\ Len(dash.out.blocks[2]) = 5
    /\ ExpandedForm(dash.out.blocks[3], 3)
    /\ episodes[3].action.file_path = Str_q
    /\ dash.out.blocks[3][2] = <<"Input: ", "{", "\"", "file_path", "\"", ": ",
                                  "\"", "q", "\\", "\"", "\\", "\\", "\"", "}">>
    /\ Len(dash.out.blocks[3]) = 5

\* C28: an added entry classified as read creates its one episode node and leaves
\* the resource nodes, the other episodes and the summaries as they were; an
\* added entry classified as write has the housekeeping run for each of its
\* resource ids, so each resource node holds the write's timestamp.
C28_HousekeepingExactlyOnWrites ==
    [][(calls' # calls /\ ~calls'[Len(calls')].reused) =>
          LET c == calls'[Len(calls')]
              cache == CacheOf[c.entry.req]
          IN IF cache.op_type = "read"
             THEN /\ c.id \notin DOMAIN episodes
                  /\ DOMAIN episodes' = DOMAIN episodes \cup {c.id}
                  /\ \A m \in DOMAIN episodes : episodes'[m] = episodes[m]
                  /\ resources' = resources
                  /\ summaries' = summaries
             ELSE \A rid \in Range(cache.resource_ids) :
                      _get_resource_last_write(resources', rid) = ToolResultTimestamp(c.entry)
      ]_vars

\* C29: in the agent loop only an entry classified as read is preflighted; an
\* entry classified as write is never reused: its call adds a new episode that
\* holds the entry and runs the housekeeping for its resource ids; a hit adds
\* no episode.
C29_WritesBypassCache ==
    [][calls' # calls =>
          LET c == calls'[Len(calls')]
          IN /\ c.preflighted <=> c.op_type = "read"
             /\ c.op_type = "write" =>
                    /\ ~c.reused
                    /\ c.id \notin DOMAIN episodes
                    /\ c.id \in DOMAIN episodes'
                    /\ episodes'[c.id] = Content(c.entry)
                    /\ \A rid \in Range(CacheOf[c.entry.req].resource_ids) :
                           _get_resource_last_write(resources', rid)
                               = ToolResultTimestamp(c.entry)
             /\ c.reused => (episodes' = episodes /\ tool_counter' = tool_counter)
      ]_vars

\* C34: an action with cwd missing and the same action with cwd null normalize
\* to the same mapping and get the same tool_key.
C34_MissingCwdIsNullCwd ==
    [][fp'.op = "add_null_cwd" =>
          /\ fp'.key = fp.key
          /\ normalize(fp'.action).val = normalize(fp.action).val]_vars

\* C33: every episode in the store carries the normalized action (files sorted,
\* a null cwd replaced by the empty string).
C33_StoredActionIsNormalized ==
    \A n \in DOMAIN episodes : episodes[n].action = _normalize_action(episodes[n].action)

\* the text between "[REUSED TR-n] " and " [FROM CACHE]" of a rendered hit
ReusedText(rendered) == SubSeq(rendered, 6, Len(rendered) - 2)

\* C37: the text of a preflight hit is the summary (with its salient data, when
\* it has some) of the episode when a summary node exists, and
\* "Reused prior result for <action_type>" when the episode has no summary.
C37_HitTextPrefersSummary ==
    [][(calls' # calls /\ calls'[Len(calls')].reused) =>
          LET c == calls'[Len(calls')]
          IN ReusedText(c.rendered) =
                 IF c.id \in DOMAIN summaries
                 THEN retrieve_tool_result_with_salient_data(summaries, c.id)
                 ELSE <<"Reused prior result for ", c.entry.req.action_type>>]_vars

\* the part of s before the first c
RECURSIVE UpTo(_, _)
UpTo(s, c) == IF s = <<>> \/ Head(s) = c THEN <<>> ELSE <<Head(s)>> \o UpTo(Tail(s), c)

\* the value that follows --group-name in a command: the next word, without "="
\* and quotes
GroupNamed(cmd) ==
    LET tail0 == Strip(AfterFirst(cmd, S_group_name), Whitespace)
        tail1 == IF StartsWith(tail0, <<"=">>) THEN Strip(Tail(tail0), Whitespace) ELSE tail0
    IN Strip(Head(SplitWs(tail1)), {"'", "\""})

\* the episodes of read commands that a write call naming the same thing has left
\* in the store; Named gives what a command names
StaleCommandReads(Named(_)) ==
    {n \in DOMAIN episodes :
        /\ episodes[n].cache.op_type = "read"
        /\ \E i \in 1..Len(calls) :
               /\ ~calls[i].reused
               /\ calls[i].op_type = "write"
               /\ n < calls[i].id
               /\ Named(calls[i].entry.req.action.command) # {}
               /\ Named(calls[i].entry.req.action.command)
                      \subseteq Named(episodes[n].action.command)}

GroupsNamed(cmd) == IF Contains(cmd, S_group_name) THEN {GroupNamed(cmd)} ELSE {}

\* C35: the resource id of a command with --group-name is iam:group:NAME for the
\* one value after the flag, and a write command naming a group leaves no
\* earlier read of that group in the store, whatever follows the name.
C35_GroupNameIsOneValue ==
    /\ \A n \in DOMAIN episodes :
           \A g \in GroupsNamed(episodes[n].action.command) :
               S_iam_group \o g \in Range(episodes[n].cache.resource_ids)
    /\ StaleCommandReads(GroupsNamed) = {}

\* the buckets of the S3 URIs in a command
BucketsNamed(cmd) ==
    {UpTo(AfterFirst(tok, S_s3), "/") :
        tok \in {t \in Range(SplitWs(cmd)) : Contains(t, S_s3)}}

\* C36: every s3://BUCKET in a command gives the resource id s3://BUCKET, and a
\* write command naming a bucket, as its second URI or with an object key too,
\* leaves no earlier read of that bucket in the store.
C36_EveryBucketIsResource ==
    /\ \A n \in DOMAIN episodes :
           \A b \in BucketsNamed(episodes[n].action.command) :
               S_s3 \o b \in Range(episodes[n].cache.resource_ids)
    /\ StaleCommandReads(BucketsNamed) = {}

\* C32: when generate_summary reads the episode node of its tool_id and there is
\* none, the call goes no further: it returns None, and that step creates no
\* summary node and no relationship.
C32_MissingEpisodeNoSummary ==
    [][(sjob' # sjob /\ sjob.pc = "s_get" /\ sjob.tool_id \notin DOMAIN episodes)
           => /\ sjob'.pc \notin {"s_put", "s_edge"}
              /\ ~sjob'.found
              /\ sjob'.returned = NoneValue
              /\ summaries' = summaries
              /\ edges' = edges]_vars

\* a generate_summary call of the second caller has ended with None for an
\* episode that was stored and tombstoned before the call began
C32_Witness ==
    /\ sjob.op = "generate_summary"
    /\ sjob.ended
    /\ ~sjob.found
    /\ sjob.returned = NoneValue
    /\ sjob.tombstoned
    /\ sjob.tool_id \notin DOMAIN summaries

\* C31: every summary node summary_TR-N in the store has its episode
\* tool_result_TR-N in the store, also when generate_summary runs beside an
\* add_tool_result that tombstones the episode.
C31_NoOrphanSummary == DOMAIN summaries \subseteq DOMAIN episodes

\* the COMPRESSES relationships from the group of tool_ids to the episode n
CompressesEdges(tool_ids, n) ==
    {e \in edges : /\ e.src = NodeId("compression", tool_ids)
                   /\ e.rel = S_COMPRESSES
                   /\ e.dst = NodeId("tool_result", n)}

\* C38: no two compression nodes cover the same set of tool_ids, and every
\* group has exactly one COMPRESSES relationship to each member episode in the
\* store.
C38_OneGroupPerToolIdSet ==
    /\ \A g1, g2 \in DOMAIN compressions :
           Range(compressions[g1].compressed_tools) = Range(compressions[g2].compressed_tools)
               => g1 = g2
    /\ \A g \in DOMAIN compressions :
           \A n \in Range(compressions[g].compressed_tools) \cap DOMAIN episodes :
               Cardinality(CompressesEdges(g, n)) = 1

\* C39: every tool_id listed in a stored compression group names an episode
\* that is in the store.
C39_GroupMembersAreStored ==
    \A g \in DOMAIN compressions :
        Range(compressions[g].compressed_tools) \subseteq DOMAIN episodes
====
